---- MODULE Spec2Model ----
(***************************************************************************)
(* Endpoint-to-tool adapter of ms-365-mcp-server: registerGraphTools, the  *)
(* tool handler it registers (request construction, pagination, result     *)
(* normalisation) and the override table it consults.                      *)
(*                                                                         *)
(* Strings are sequences of one-character strings, so that substring       *)
(* replacement, case conversion, percent-encoding and JSON string escaping *)
(* are computed character by character, as the JavaScript built-ins do.    *)
(***************************************************************************)
EXTENDS Integers, Sequences, FiniteSets, TLC

VARIABLES
    tool,          \* the endpoint descriptor the handler closes over
    override,      \* toolSchemaOverrides.get(tool.alias), or the absent record
    params,        \* the call parameters, in Object.entries order
    graphClient,   \* the transport: what each successive graphRequest call does
    calls,         \* the requests graphRequest has received, in order
    replies,       \* what graphRequest did on each of those calls, in order
    h,             \* the handler's local state for this invocation
    reg,           \* registerGraphTools: its inputs, loop position and server.tool calls
    peer,          \* a second invocation of the same tool, in flight at the same time
    fnResult       \* what a function of a shipped override record returned

vars == <<tool, override, params, graphClient, calls, replies, h, reg, peer, fnResult>>

---------------------------------------------------------------------------
(* JavaScript string built-ins *)

RECURSIVE Flatten(_)
Flatten(ss) == IF ss = <<>> THEN <<>> ELSE Head(ss) \o Flatten(Tail(ss))

UpperLetters ==
    <<"A","B","C","D","E","F","G","H","I","J","K","L","M",
      "N","O","P","Q","R","S","T","U","V","W","X","Y","Z">>

LowerLetters ==
    <<"a","b","c","d","e","f","g","h","i","j","k","l","m",
      "n","o","p","q","r","s","t","u","v","w","x","y","z">>

Digits == <<"0","1","2","3","4","5","6","7","8","9">>

Range(s) == {s[i] : i \in DOMAIN s}

PosIn(c, s) == CHOOSE i \in DOMAIN s : s[i] = c

\* String.prototype.toLowerCase
toLowerCase(s) ==
    [i \in DOMAIN s |->
        IF s[i] \in Range(UpperLetters)
        THEN LowerLetters[PosIn(s[i], UpperLetters)] ELSE s[i]]

\* String.prototype.toUpperCase
toUpperCase(s) ==
    [i \in DOMAIN s |->
        IF s[i] \in Range(LowerLetters)
        THEN UpperLetters[PosIn(s[i], LowerLetters)] ELSE s[i]]

\* String.prototype.indexOf, 1-based; 0 when pat does not occur in s
IndexOf(s, pat) ==
    LET hits == {i \in 1..(Len(s) - Len(pat) + 1) :
                     SubSeq(s, i, i + Len(pat) - 1) = pat}
    IN  IF hits = {} THEN 0 ELSE CHOOSE i \in hits : \A j \in hits : i <= j

\* String.prototype.includes
Includes(s, pat) == IndexOf(s, pat) # 0

\* String.prototype.endsWith
EndsWith(s, suf) ==
    Len(suf) <= Len(s) /\ SubSeq(s, Len(s) - Len(suf) + 1, Len(s)) = suf

\* String.prototype.replace with a string pattern: only the first occurrence
\* is replaced.  The replacement strings used here come out of
\* encodeURIComponent, which escapes "$", so no replacement pattern is in play.
Replace(s, pat, rep) ==
    LET i == IndexOf(s, pat)
    IN  IF i = 0 THEN s
        ELSE SubSeq(s, 1, i - 1) \o rep \o SubSeq(s, i + Len(pat), Len(s))

\* encodeURIComponent leaves A-Z a-z 0-9 - _ . ! ~ * ' ( ) alone
UriUnreserved ==
    Range(UpperLetters) \cup Range(LowerLetters) \cup Range(Digits)
    \cup {"-", "_", ".", "!", "~", "*", "'", "(", ")"}

\* the escape of each other printable ASCII character
UriEscapes ==
    << <<" ", <<"%","2","0">> >>, <<"\"", <<"%","2","2">> >>,
       <<"#", <<"%","2","3">> >>, <<"$", <<"%","2","4">> >>,
       <<"%", <<"%","2","5">> >>, <<"&", <<"%","2","6">> >>,
       <<"+", <<"%","2","B">> >>, <<",", <<"%","2","C">> >>,
       <<"/", <<"%","2","F">> >>, <<":", <<"%","3","A">> >>,
       <<";", <<"%","3","B">> >>, <<"<", <<"%","3","C">> >>,
       <<"=", <<"%","3","D">> >>, <<">", <<"%","3","E">> >>,
       <<"?", <<"%","3","F">> >>, <<"@", <<"%","4","0">> >>,
       <<"[", <<"%","5","B">> >>, <<"\\", <<"%","5","C">> >>,
       <<"]", <<"%","5","D">> >>, <<"^", <<"%","5","E">> >>,
       <<"{", <<"%","7","B">> >>,
       <<"|", <<"%","7","C">> >>, <<"}", <<"%","7","D">> >>,
       <<"\n", <<"%","0","A">> >> >>

UriEscapeOf(c) ==
    LET hits == {i \in DOMAIN UriEscapes : UriEscapes[i][1] = c}
    IN  IF hits = {} THEN <<c>> ELSE UriEscapes[CHOOSE i \in hits : TRUE][2]

encodeURIComponent(s) ==
    Flatten([i \in DOMAIN s |->
                IF s[i] \in UriUnreserved THEN <<s[i]>> ELSE UriEscapeOf(s[i])])

\* JSON.stringify of a string, without the enclosing quotes
JsonEscape(s) ==
    Flatten([i \in DOMAIN s |->
                CASE s[i] = "\"" -> <<"\\", "\"">>
                  [] s[i] = "\\" -> <<"\\", "\\">>
                  [] s[i] = "\n" -> <<"\\", "n">>
                  [] OTHER -> <<s[i]>>])

---------------------------------------------------------------------------
(* JavaScript values: t is the typeof tag, v the characters String(x)     *)
(* gives for a string or a boolean, and the identity of an object.        *)

Null == [t |-> "null", v |-> <<>>]

Str(s) == [t |-> "str", v |-> s]

TrueChars == <<"t","r","u","e">>

FalseChars == <<"f","a","l","s","e">>

Bool(b) == [t |-> "bool", v |-> IF b THEN TrueChars ELSE FalseChars]

Obj(id) == [t |-> "obj", v |-> id]

\* `${x}`
TemplateString(x) ==
    CASE x.t = "obj" -> <<"[","o","b","j","e","c","t"," ","O","b","j","e","c","t","]">>
      [] x.t = "null" -> <<"n","u","l","l">>
      [] OTHER -> x.v

\* the truthiness of x in a condition
Truthy(x) ==
    CASE x.t \in {"null", "undefined"} -> FALSE
      [] x.t = "str" -> x.v # <<>>
      [] x.t = "bool" -> x.v = TrueChars
      [] x.t = "num" -> x.v # <<"0">>
      [] OTHER -> TRUE

\* an assignment that leaves a key it finds alone
SetKeyKeepsFirst(m, key, value) ==
    IF \E i \in DOMAIN m : m[i].key = key THEN m
    ELSE Append(m, [key |-> key, value |-> value])

\* obj[key] = value on an object whose keys are kept in insertion order
SetKey(m, key, value) ==
    IF \E i \in DOMAIN m : m[i].key = key
    THEN [i \in DOMAIN m |-> IF m[i].key = key THEN [key |-> key, value |-> value] ELSE m[i]]
    ELSE Append(m, [key |-> key, value |-> value])

Keys(m) == {m[i].key : i \in DOMAIN m}

ValueOf(m, key) == m[CHOOSE i \in DOMAIN m : m[i].key = key].value

\* Object.assign(target, source)
RECURSIVE ObjectAssign(_, _)
ObjectAssign(target, source) ==
    IF source = <<>> THEN target
    ELSE ObjectAssign(SetKey(target, Head(source).key, Head(source).value), Tail(source))

---------------------------------------------------------------------------
(* Names the handler compares parameter names with *)

fetchAllPagesName == <<"f","e","t","c","h","A","l","l","P","a","g","e","s">>

bodyName == <<"b","o","d","y">>

odataParams ==
    << <<"f","i","l","t","e","r">>, <<"s","e","l","e","c","t">>,
       <<"e","x","p","a","n","d">>, <<"o","r","d","e","r","b","y">>,
       <<"s","k","i","p">>, <<"t","o","p">>, <<"c","o","u","n","t">>,
       <<"s","e","a","r","c","h">>, <<"f","o","r","m","a","t">> >>

GETChars == <<"G","E","T">>

---------------------------------------------------------------------------
(* The handler, up to its first await: request construction               *)
(*                                                                         *)
(* An endpoint descriptor is [alias, method, path, parameters, mediaError] *)
(* with parameters a sequence of [name, type].  An override record is      *)
(* [present, description, hasSchema, schemaKeys, transform,                *)
(* queryTransform, pathTransform]; a transform is [kind, out, message]     *)
(* with kind "absent", "returns" (out is what it returns for the call's   *)
(* parameters) or "throws" (message is the exception's message).           *)

\* a loop for which no parameter is owned by the override's schema
OverrideOwnsNothing(o, paramName) == FALSE

\* overrideParamNames?.has(paramName)
OverrideOwns(o, paramName) ==
    o.present /\ o.hasSchema /\ paramName \in o.schemaKeys

\* a restoration that forgets to lower-case the name
FixedParamNameKeepsCase(paramName) ==
    IF toLowerCase(paramName) \in Range(odataParams)
    THEN <<"$">> \o paramName
    ELSE paramName

\* fixedParamName
FixedParamName(paramName) ==
    IF toLowerCase(paramName) \in Range(odataParams)
    THEN <<"$">> \o toLowerCase(paramName)
    ELSE paramName

\* case 'Path': both placeholder forms, one replace call each
SubstitutePath(path, paramName, paramValue) ==
    Replace(Replace(path, <<"{">> \o paramName \o <<"}">>,
                    encodeURIComponent(TemplateString(paramValue))),
            <<":">> \o paramName,
            encodeURIComponent(TemplateString(paramValue)))

\* parameterDefinitions.find((p) => p.name === paramName)
FindParamDef(t, paramName) ==
    LET hits == {i \in DOMAIN t.parameters : t.parameters[i].name = paramName}
    IN  IF hits = {} THEN [name |-> paramName, type |-> "undefined", schema |-> "undefined"]
        ELSE t.parameters[CHOOSE i \in hits : \A j \in hits : i <= j]

\* a loop that routes fetchAllPages like any other parameter
RouteParamRoutesFlag(t, o, acc, p) ==
    LET paramDef == FindParamDef(t, p.name)
    IN  IF OverrideOwns(o, p.name) THEN acc
        ELSE CASE paramDef.type = "Path" ->
                    [acc EXCEPT !.path = SubstitutePath(@, p.name, p.value)]
               [] paramDef.type = "Query" ->
                    [acc EXCEPT !.queryParams =
                        SetKey(@, FixedParamName(p.name), TemplateString(p.value))]
               [] paramDef.type = "Body" ->
                    IF ~o.present THEN [acc EXCEPT !.body = p.value] ELSE acc
               [] paramDef.type = "Header" ->
                    [acc EXCEPT !.headers =
                        SetKey(@, FixedParamName(p.name), TemplateString(p.value))]
               [] paramDef.type = "undefined" /\ p.name = bodyName /\ ~o.present ->
                    [acc EXCEPT !.body = p.value]
               [] OTHER -> acc

\* a loop that routes no Query parameter when the override has a query transform
RouteParamLeavesQueryToTransform(t, o, acc, p) ==
    LET paramDef == FindParamDef(t, p.name)
    IN  IF p.name = fetchAllPagesName THEN acc
        ELSE IF OverrideOwns(o, p.name) THEN acc
        ELSE CASE paramDef.type = "Path" ->
                    [acc EXCEPT !.path = SubstitutePath(@, p.name, p.value)]
               [] paramDef.type = "Query" ->
                    IF o.present /\ o.queryTransform.kind # "absent" THEN acc
                    ELSE [acc EXCEPT !.queryParams =
                            SetKey(@, FixedParamName(p.name), TemplateString(p.value))]
               [] paramDef.type = "Body" ->
                    IF ~o.present THEN [acc EXCEPT !.body = p.value] ELSE acc
               [] paramDef.type = "Header" ->
                    [acc EXCEPT !.headers =
                        SetKey(@, FixedParamName(p.name), TemplateString(p.value))]
               [] paramDef.type = "undefined" /\ p.name = bodyName /\ ~o.present ->
                    [acc EXCEPT !.body = p.value]
               [] OTHER -> acc

\* a loop whose body fallback also applies under an override
RouteParamBodyFallbackAlways(t, o, acc, p) ==
    LET paramDef == FindParamDef(t, p.name)
    IN  IF p.name = fetchAllPagesName THEN acc
        ELSE IF OverrideOwns(o, p.name) THEN acc
        ELSE CASE paramDef.type = "Path" ->
                    [acc EXCEPT !.path = SubstitutePath(@, p.name, p.value)]
               [] paramDef.type = "Query" ->
                    [acc EXCEPT !.queryParams =
                        SetKey(@, FixedParamName(p.name), TemplateString(p.value))]
               [] paramDef.type = "Body" ->
                    IF ~o.present THEN [acc EXCEPT !.body = p.value] ELSE acc
               [] paramDef.type = "Header" ->
                    [acc EXCEPT !.headers =
                        SetKey(@, FixedParamName(p.name), TemplateString(p.value))]
               [] paramDef.type = "undefined" /\ p.name = bodyName ->
                    [acc EXCEPT !.body = p.value]
               [] OTHER -> acc

\* one iteration of the loop over Object.entries(params); acc is
\* [path, queryParams, headers, body]
RouteParam(t, o, acc, p) ==
    LET paramDef == FindParamDef(t, p.name)
    IN  IF p.name = fetchAllPagesName THEN acc
        ELSE IF OverrideOwns(o, p.name) THEN acc
        ELSE CASE paramDef.type = "Path" ->
                    [acc EXCEPT !.path = SubstitutePath(@, p.name, p.value)]
               [] paramDef.type = "Query" ->
                    [acc EXCEPT !.queryParams =
                        SetKey(@, FixedParamName(p.name), TemplateString(p.value))]
               [] paramDef.type = "Body" ->
                    IF ~o.present THEN [acc EXCEPT !.body = p.value] ELSE acc
               [] paramDef.type = "Header" ->
                    [acc EXCEPT !.headers =
                        SetKey(@, FixedParamName(p.name), TemplateString(p.value))]
               [] paramDef.type = "undefined" /\ p.name = bodyName /\ ~o.present ->
                    [acc EXCEPT !.body = p.value]
               [] OTHER -> acc

RECURSIVE RouteParams(_, _, _, _)
RouteParams(t, o, acc, ps) ==
    IF ps = <<>> THEN acc
    ELSE RouteParams(t, o, RouteParam(t, o, acc, Head(ps)), Tail(ps))

\* Object.entries(queryParams).map(...).join('&')
RECURSIVE QueryString(_)
QueryString(q) ==
    IF q = <<>> THEN <<>>
    ELSE encodeURIComponent(Head(q).key) \o <<"=">> \o encodeURIComponent(Head(q).value)
         \o (IF Tail(q) = <<>> THEN <<>> ELSE <<"&">> \o QueryString(Tail(q)))

\* path after the query string is appended
WithQueryString(path, q) ==
    IF q = <<>> THEN path
    ELSE path \o (IF Includes(path, <<"?">>) THEN <<"&">> ELSE <<"?">>) \o QueryString(q)

\* options.body: absent, or the body passed through ("raw") or JSON-encoded
NoBody == [enc |-> "absent", of |-> Null]

\* options that carry every body value there is, the empty text included
SerializeBodyWhenNotNull(method, body) ==
    IF method # GETChars /\ body.t \notin {"null", "undefined"}
    THEN [enc |-> IF body.t = "str" THEN "raw" ELSE "json", of |-> body]
    ELSE NoBody

SerializeBody(method, body) ==
    IF method # GETChars /\ Truthy(body)
    THEN [enc |-> IF body.t = "str" THEN "raw" ELSE "json", of |-> body]
    ELSE NoBody

\* the state of the request once the transforms have run and before the loop
AfterTransforms(t, o) ==
    [path |-> IF o.present /\ o.pathTransform.kind = "returns"
              THEN o.pathTransform.out ELSE t.path,
     queryParams |-> IF o.present /\ o.queryTransform.kind = "returns"
                     THEN ObjectAssign(<<>>, o.queryTransform.out) ELSE <<>>,
     headers |-> <<>>,
     body |-> IF o.present /\ o.transform.kind = "returns" THEN o.transform.out ELSE Null]

\* the first override transform that throws, in call order, or "none"
ThrowingTransform(o) ==
    CASE ~o.present -> "none"
      [] o.pathTransform.kind = "throws" -> "pathTransform"
      [] o.transform.kind = "throws" -> "transform"
      [] o.queryTransform.kind = "throws" -> "queryTransform"
      [] OTHER -> "none"

ThrownMessage(o) ==
    CASE ThrowingTransform(o) = "pathTransform" -> o.pathTransform.message
      [] ThrowingTransform(o) = "transform" -> o.transform.message
      [] OTHER -> o.queryTransform.message

\* the path and options of the primary graphRequest call
BuildRequest(t, o, ps) ==
    LET acc == RouteParams(t, o, AfterTransforms(t, o), ps)
        path == WithQueryString(acc.path, acc.queryParams)
        method == toUpperCase(t.method)
    IN  [path |-> path,
         routed |-> acc,
         options |-> [method |-> method,
                      headers |-> acc.headers,
                      body |-> SerializeBody(method, acc.body),
                      rawResponse |-> t.mediaError
                                      \/ EndsWith(path, <<"/","c","o","n","t","e","n","t">>),
                      queryParams |-> <<>>,
                      hasQueryParams |-> FALSE]]

---------------------------------------------------------------------------
(* The transport's results                                                 *)
(*                                                                         *)
(* A content item's text is [fmt, doc, chars]: a JSON document known by    *)
(* its parse (doc) and its formatting (fmt "compact" as JSON.stringify     *)
(* writes it, "spaced" otherwise); the JSON text null (fmt "null"); a text *)
(* that is not JSON (fmt "notjson"); or a text known by its characters     *)
(* (fmt "chars").  A document is [hasValue, value, nextLink, hasCount,     *)
(* count]; nextLink is [kind, pathname, search] with kind "absent", "url"  *)
(* (an absolute URL, known by its parse) or "unparsable".                  *)

NoLink == [kind |-> "absent", pathname |-> <<>>, search |-> <<>>]

EmptyDoc == [hasValue |-> FALSE, value |-> <<>>, nextLink |-> NoLink,
             hasCount |-> FALSE, count |-> 0]

CharsText(cs) == [fmt |-> "chars", doc |-> EmptyDoc, chars |-> cs]

\* JSON.stringify(doc)
JSONstringify(doc) == [fmt |-> "compact", doc |-> doc, chars |-> <<>>]

\* whether JSON.parse(text) throws
ParseThrows(text) == text.fmt \in {"notjson", "chars"}

\* whether reading a property of JSON.parse(text) throws (the value is null)
PropertyReadThrows(text) == text.fmt = "null"

NoResponse == [shape |-> "undefined", content |-> <<>>, isError |-> "undefined",
               meta |-> "undefined"]

\* response && response.content && response.content.length > 0
ContentBearing(r) == r.shape = "content" /\ Len(r.content) > 0

---------------------------------------------------------------------------
(* The handler, from its first await on                                    *)

MaxPages == 100

PrefixV1 == <<"/","v","1",".","0">>

ErrorPrefix == <<"E","r","r","o","r"," ","i","n"," ","t","o","o","l"," ">>

\* the message of the TypeError a property read of undefined raises
TypeErrorMessage == <<"T","y","p","e","E","r","r","o","r">>

NoResult == [kind |-> "none", content |-> <<>>, isError |-> "undefined",
             meta |-> "undefined"]

\* a catch block that forgets the error flag
ErrorResultUnflagged(t, message) ==
    [kind |-> "returned",
     content |-> << [type |-> "text",
                     text |-> CharsText(<<"{","\"","e","r","r","o","r","\"",":","\"">>
                                        \o JsonEscape(ErrorPrefix \o t.alias
                                                      \o <<":"," ">> \o message)
                                        \o <<"\"","}">>)] >>,
     isError |-> "undefined",
     meta |-> "undefined"]

\* the catch block of the handler
ErrorResult(t, message) ==
    [kind |-> "returned",
     content |-> << [type |-> "text",
                     text |-> CharsText(<<"{","\"","e","r","r","o","r","\"",":","\"">>
                                        \o JsonEscape(ErrorPrefix \o t.alias
                                                      \o <<":"," ">> \o message)
                                        \o <<"\"","}">>)] >>,
     isError |-> "true",
     meta |-> "undefined"]

\* a conversion that turns a result the transport flagged into the error shape
NormalizeRewritesFlagged(t, response) ==
    IF response.shape # "content" \/ response.isError = "true"
    THEN ErrorResult(t, TypeErrorMessage)
    ELSE [kind |-> "returned",
          content |-> [i \in DOMAIN response.content |->
                          [type |-> "text", text |-> response.content[i].text]],
          isError |-> response.isError,
          meta |-> response.meta]

\* the conversion of the McpResponse into the CallToolResult
Normalize(t, response) ==
    IF response.shape # "content"
    THEN ErrorResult(t, TypeErrorMessage)
    ELSE [kind |-> "returned",
          content |-> [i \in DOMAIN response.content |->
                          [type |-> "text", text |-> response.content[i].text]],
          isError |-> response.isError,
          meta |-> response.meta]

\* params.fetchAllPages === true
FetchAllPages(ps) ==
    \E i \in DOMAIN ps : ps[i].name = fetchAllPagesName /\ ps[i].value = Bool(TRUE)

IdleHandler ==
    [pc |-> "idle",
     request |-> [path |-> <<>>,
                  routed |-> [path |-> <<>>, queryParams |-> <<>>, headers |-> <<>>,
                              body |-> Null],
                  options |-> [method |-> <<>>, headers |-> <<>>, body |-> NoBody,
                               rawResponse |-> FALSE, queryParams |-> <<>>,
                               hasQueryParams |-> FALSE]],
     response |-> NoResponse,
     combinedResponse |-> EmptyDoc,
     allItems |-> <<>>,
     nextLink |-> NoLink,
     pageCount |-> 0,
     merged |-> FALSE,
     result |-> NoResult]

\* the handler returns
Finish(t, hr, response) ==
    [h |-> [hr EXCEPT !.pc = "done", !.response = response,
                      !.result = Normalize(t, response)],
     sent |-> <<>>]

\* after the loop: the merge into the first response
Merge(t, hr) ==
    LET c == hr.combinedResponse
        combined == [c EXCEPT !.hasValue = TRUE,
                              !.value = hr.allItems,
                              !.count = IF c.hasCount /\ c.count # 0
                                        THEN Len(hr.allItems) ELSE @,
                              !.nextLink = NoLink]
        first == [hr.response.content[1] EXCEPT !.text = JSONstringify(combined)]
    IN  Finish(t, [hr EXCEPT !.combinedResponse = combined, !.merged = TRUE],
               [hr.response EXCEPT !.content = <<first>> \o Tail(@)])

\* a loop that asks for every page with the cursor of the first page
LoopHeadFirstCursor(t, hr) ==
    CASE hr.nextLink.kind = "absent" -> Merge(t, hr)
      [] hr.nextLink.kind = "unparsable" -> Finish(t, hr, hr.response)
      [] OTHER ->
           [h |-> [hr EXCEPT !.pc = "awaitPage"],
            sent |-> << [path |-> Replace(hr.combinedResponse.nextLink.pathname,
                                          PrefixV1, <<>>),
                         options |-> [hr.request.options EXCEPT
                                        !.queryParams =
                                            ObjectAssign(<<>>,
                                                hr.combinedResponse.nextLink.search),
                                        !.hasQueryParams = TRUE]] >>]

\* while (nextLink): the next follow-up request, or the end of the loop
LoopHead(t, hr) ==
    CASE hr.nextLink.kind = "absent" -> Merge(t, hr)
      [] hr.nextLink.kind = "unparsable" -> Finish(t, hr, hr.response)
      [] OTHER ->
           [h |-> [hr EXCEPT !.pc = "awaitPage"],
            sent |-> << [path |-> Replace(hr.nextLink.pathname, PrefixV1, <<>>),
                         options |-> [hr.request.options EXCEPT
                                        !.queryParams = ObjectAssign(<<>>, hr.nextLink.search),
                                        !.hasQueryParams = TRUE]] >>]

\* the handler is called: the transforms, the parameter loop, the primary request
HandlerCalled(t, o, ps, hr) ==
    IF ThrowingTransform(o) # "none"
    THEN [h |-> [hr EXCEPT !.pc = "done", !.result = ErrorResult(t, ThrownMessage(o))],
          sent |-> <<>>]
    ELSE LET req == BuildRequest(t, o, ps)
         IN  [h |-> [hr EXCEPT !.pc = "awaitPrimary", !.request = req],
              sent |-> << [path |-> req.path, options |-> req.options] >>]

\* the primary graphRequest call returns response
PrimaryReturned(t, ps, hr, response) ==
    IF FetchAllPages(ps) /\ ContentBearing(response)
    THEN LET text == response.content[1].text
             hr1 == [hr EXCEPT !.response = response]
         IN  IF ParseThrows(text) \/ PropertyReadThrows(text)
             THEN Finish(t, hr1, response)
             ELSE LoopHead(t, [hr1 EXCEPT
                                 !.combinedResponse = text.doc,
                                 !.allItems = IF text.doc.hasValue THEN text.doc.value
                                              ELSE <<>>,
                                 !.nextLink = text.doc.nextLink,
                                 !.pageCount = 1])
    ELSE Finish(t, hr, response)

\* a handler without the outer catch: the exception escapes
PrimaryThrewEscapes(t, hr, message) ==
    [h |-> [hr EXCEPT !.pc = "done", !.result = [NoResult EXCEPT !.kind = "raised"]],
     sent |-> <<>>]

\* a graphRequest call of the primary request throws: the outer catch
PrimaryThrew(t, hr, message) ==
    [h |-> [hr EXCEPT !.pc = "done", !.result = ErrorResult(t, message)],
     sent |-> <<>>]

\* a merge that puts each new page in front of the accumulator
PageReturnedPrepends(t, hr, nextResponse) ==
    IF ContentBearing(nextResponse)
    THEN LET text == nextResponse.content[1].text
         IN  IF ParseThrows(text) \/ PropertyReadThrows(text)
             THEN Finish(t, hr, hr.response)
             ELSE LET hr1 == [hr EXCEPT
                                !.allItems = IF text.doc.hasValue
                                             THEN text.doc.value \o @ ELSE @,
                                !.nextLink = text.doc.nextLink,
                                !.pageCount = @ + 1]
                  IN  IF hr1.pageCount > MaxPages THEN Merge(t, hr1)
                      ELSE LoopHead(t, hr1)
    ELSE Merge(t, hr)

\* a pagination whose parse failure keeps what was accumulated
PageReturnedKeepsAccumulated(t, hr, nextResponse) ==
    IF ContentBearing(nextResponse)
    THEN LET text == nextResponse.content[1].text
         IN  IF ParseThrows(text) \/ PropertyReadThrows(text)
             THEN Merge(t, hr)
             ELSE LET hr1 == [hr EXCEPT
                                !.allItems = IF text.doc.hasValue
                                             THEN @ \o text.doc.value ELSE @,
                                !.nextLink = text.doc.nextLink,
                                !.pageCount = @ + 1]
                  IN  IF hr1.pageCount > MaxPages THEN Merge(t, hr1)
                      ELSE LoopHead(t, hr1)
    ELSE Merge(t, hr)

\* a pagination whose parse failure reaches the outer catch
PageReturnedEscalates(t, hr, nextResponse) ==
    IF ContentBearing(nextResponse)
    THEN LET text == nextResponse.content[1].text
         IN  IF ParseThrows(text) \/ PropertyReadThrows(text)
             THEN [h |-> [hr EXCEPT !.pc = "done",
                                    !.result = ErrorResult(t, TypeErrorMessage)],
                   sent |-> <<>>]
             ELSE LET hr1 == [hr EXCEPT
                                !.allItems = IF text.doc.hasValue
                                             THEN @ \o text.doc.value ELSE @,
                                !.nextLink = text.doc.nextLink,
                                !.pageCount = @ + 1]
                  IN  IF hr1.pageCount > MaxPages THEN Merge(t, hr1)
                      ELSE LoopHead(t, hr1)
    ELSE Merge(t, hr)

\* a pagination that gives up the accumulated pages when a follow-up response
\* has no content
PageReturnedDropsOnEmpty(t, hr, nextResponse) ==
    IF ContentBearing(nextResponse)
    THEN LET text == nextResponse.content[1].text
         IN  IF ParseThrows(text) \/ PropertyReadThrows(text)
             THEN Finish(t, hr, hr.response)
             ELSE LET hr1 == [hr EXCEPT
                                !.allItems = IF text.doc.hasValue
                                             THEN @ \o text.doc.value ELSE @,
                                !.nextLink = text.doc.nextLink,
                                !.pageCount = @ + 1]
                  IN  IF hr1.pageCount > MaxPages THEN Merge(t, hr1)
                      ELSE LoopHead(t, hr1)
    ELSE Finish(t, hr, hr.response)

\* a pagination for which the page cap is a failure
PageReturnedCapIsError(t, hr, nextResponse) ==
    IF ContentBearing(nextResponse)
    THEN LET text == nextResponse.content[1].text
         IN  IF ParseThrows(text) \/ PropertyReadThrows(text)
             THEN Finish(t, hr, hr.response)
             ELSE LET hr1 == [hr EXCEPT
                                !.allItems = IF text.doc.hasValue
                                             THEN @ \o text.doc.value ELSE @,
                                !.nextLink = text.doc.nextLink,
                                !.pageCount = @ + 1]
                  IN  IF hr1.pageCount > MaxPages
                      THEN [h |-> [hr1 EXCEPT !.pc = "done",
                                              !.result = ErrorResult(t, TypeErrorMessage)],
                            sent |-> <<>>]
                      ELSE LoopHead(t, hr1)
    ELSE Merge(t, hr)

\* a follow-up graphRequest call returns nextResponse
PageReturned(t, hr, nextResponse) ==
    IF ContentBearing(nextResponse)
    THEN LET text == nextResponse.content[1].text
         IN  IF ParseThrows(text) \/ PropertyReadThrows(text)
             THEN Finish(t, hr, hr.response)
             ELSE LET hr1 == [hr EXCEPT
                                !.allItems = IF text.doc.hasValue
                                             THEN @ \o text.doc.value ELSE @,
                                !.nextLink = text.doc.nextLink,
                                !.pageCount = @ + 1]
                  IN  IF hr1.pageCount > MaxPages THEN Merge(t, hr1)
                      ELSE LoopHead(t, hr1)
    ELSE Merge(t, hr)

\* a pagination that asks again for the page whose request threw
PageThrewRetries(t, hr) == LoopHead(t, hr)

\* a follow-up graphRequest call throws: the catch around the pagination
PageThrew(t, hr) == Finish(t, hr, hr.response)

---------------------------------------------------------------------------
(* Endpoints, overrides and call parameters the invocations are drawn from *)

idName == <<"i","d">>

topName == <<"t","o","p">>

TopName == <<"T","o","p">>

qName == <<"q">>

hName == <<"h">>

dName == <<"d">>

xName == <<"x">>

Param(name, type) == [name |-> name, type |-> type, schema |-> "zod"]

Endpoint(alias, method, path, parameters) ==
    [alias |-> alias, method |-> method, path |-> path, parameters |-> parameters,
     description |-> <<>>, mediaError |-> FALSE]

\* GET /me/m: a listing endpoint
ListTool ==
    Endpoint(<<"l","i","s","t">>, <<"g","e","t">>, <<"/","m","e","/","m">>,
             <<Param(topName, "Query"), Param(TopName, "Query"), Param(qName, "Query"),
               Param(hName, "Header")>>)

\* GET /m/{id}
BraceTool ==
    Endpoint(<<"g","e","t","-","m">>, <<"G","E","T">>,
             <<"/","m","/","{","i","d","}">>,
             <<Param(idName, "Path"), Param(topName, "Query")>>)

\* DELETE /u/:id/m/{id}: both placeholder forms
BothTool ==
    Endpoint(<<"d","e","l","-","m">>, <<"d","e","l","e","t","e">>,
             <<"/","u","/",":","i","d","/","m","/","{","i","d","}">>,
             <<Param(idName, "Path"), Param(hName, "Header")>>)

\* GET /m/{id}/c/{id}: one placeholder twice
TwiceTool ==
    Endpoint(<<"g","e","t","-","c">>, <<"g","e","t">>,
             <<"/","m","/","{","i","d","}","/","c","/","{","i","d","}">>,
             <<Param(idName, "Path")>>)

\* POST /me/send with a declared body
PostTool ==
    Endpoint(<<"s","e","n","d">>, <<"p","o","s","t">>,
             <<"/","m","e","/","s","e","n","d">>,
             <<Param(dName, "Body"), Param(hName, "Header"), Param(qName, "Query")>>)

\* POST /me/x without declared parameters
BareTool ==
    Endpoint(<<"b","a","r","e">>, <<"P","O","S","T">>, <<"/","m","e","/","x">>, <<>>)

\* an endpoint that declares a parameter named fetchAllPages, in class type
FlagTool(type) ==
    Endpoint(<<"f","l","a","g">>, IF type = "Body" THEN <<"p","u","t">> ELSE <<"g","e","t">>,
             <<"/","f","/","{">> \o fetchAllPagesName \o <<"}","/",":">> \o fetchAllPagesName,
             <<Param(fetchAllPagesName, type), Param(qName, "Query")>>)

ParamTypes == {"Path", "Query", "Body", "Header"}

NoTransform == [kind |-> "absent", out |-> Null, message |-> <<>>]

NoQueryTransform == [kind |-> "absent", out |-> <<>>, message |-> <<>>]

NoPathTransform == [kind |-> "absent", out |-> <<>>, message |-> <<>>]

\* toolSchemaOverrides.get(alias) found nothing
NoOverride ==
    [present |-> FALSE, description |-> <<>>, hasSchema |-> FALSE, schemaKeys |-> {},
     transform |-> NoTransform, queryTransform |-> NoQueryTransform,
     pathTransform |-> NoPathTransform]

ExceptionMessages == { <<"b","o","o","m">>, <<"4","0","4"," ","{","\"","e","\"","}">> }

\* what a body transform may do
Transforms ==
    {NoTransform,
     [kind |-> "returns", out |-> Obj(<<"b","u","i","l","t">>), message |-> <<>>]}
    \cup {[kind |-> "throws", out |-> Null, message |-> m] : m \in ExceptionMessages}

\* what a query transform may do
QueryTransforms ==
    {NoQueryTransform,
     [kind |-> "returns",
      out |-> << [key |-> <<"$","t","o","p">>, value |-> <<"1","0">>] >>,
      message |-> <<>>]}
    \cup {[kind |-> "throws", out |-> <<>>, message |-> m] : m \in ExceptionMessages}

\* what a path transform may do
PathTransforms ==
    {NoPathTransform,
     [kind |-> "returns", out |-> <<"/","u","s","e","r","s","/","{","i","d","}">>,
      message |-> <<>>]}
    \cup {[kind |-> "throws", out |-> <<>>, message |-> m] : m \in ExceptionMessages}

\* the schema key sets of the override records
SchemaKeySets == { {}, {topName, qName}, {idName, hName, dName} }

\* the override records: any subset of the optional fields
OverrideRecords ==
    {[present |-> TRUE, description |-> <<>>, hasSchema |-> hs, schemaKeys |-> ks,
      transform |-> tr, queryTransform |-> qt, pathTransform |-> pt] :
        hs \in BOOLEAN, ks \in SchemaKeySets,
        tr \in Transforms, qt \in QueryTransforms, pt \in PathTransforms}

WellFormedOverride(o) == o.hasSchema \/ o.schemaKeys = {}

Throws(o) == ThrowingTransform(o) # "none"

\* the values a call may supply under a name
ValuesFor(name) ==
    CASE name = fetchAllPagesName -> {Bool(TRUE), Bool(FALSE)}
      [] name = idName -> {Str(<<"a","/","b">>)}
      [] name = topName -> {Str(<<"5">>)}
      [] name = TopName -> {Str(<<"9">>)}
      [] name = dName -> {Obj(<<"d","a","t","a">>)}
      [] name = bodyName -> {Str(<<"r","a","w">>), Str(<<>>)}
      [] OTHER -> {Str(<<"v">>)}

\* the names a call to endpoint t may supply
NamesFor(t) ==
    {t.parameters[i].name : i \in DOMAIN t.parameters}
    \cup {fetchAllPagesName, bodyName}
    \cup (IF t.parameters = <<>> \/ toUpperCase(t.method) # GETChars THEN {xName} ELSE {})

MaxParams == 2

\* the call parameter objects of at most MaxParams entries, names distinct
RECURSIVE ParamSeqs(_, _)
ParamSeqs(names, n) ==
    IF n = 0 THEN {<<>>}
    ELSE {<<>>} \cup
         UNION {{<<[name |-> nm, value |-> v]>> \o rest :
                    v \in ValuesFor(nm), rest \in ParamSeqs(names \ {nm}, n - 1)} :
                nm \in names}

---------------------------------------------------------------------------
(* The functions of the shipped override records (tool-schemas.ts) *)

Undefined == [t |-> "undefined", v |-> <<>>]

Num(digits) == [t |-> "num", v |-> digits]

\* p.name for a parameter object p
Prop(p, name) ==
    IF \E i \in DOMAIN p : p[i].name = name
    THEN p[CHOOSE i \in DOMAIN p : p[i].name = name].value
    ELSE Undefined

userIdName == <<"u","s","e","r","I","d">>

folderIdName == <<"f","o","l","d","e","r","I","d">>

MePath == <<"/","m","e">>

UsersSlash == <<"/","u","s","e","r","s","/">>

MailFolders == <<"/","m","a","i","l","F","o","l","d","e","r","s","/">>

Messages == <<"/","m","e","s","s","a","g","e","s">>

MeSlash == <<"/","m","e","/">>

SendMailSuffix == <<"/","s","e","n","d","M","a","i","l">>

\* a list-mail-messages path that forgets the folder
ListMailMessagesPathIgnoresFolder(base, p) ==
    (IF Truthy(Prop(p, userIdName))
     THEN UsersSlash \o TemplateString(Prop(p, userIdName)) ELSE MePath)
    \o Messages

\* list-mail-messages: pathTransform
ListMailMessagesPathTransform(base, p) ==
    LET root == IF Truthy(Prop(p, userIdName))
                THEN UsersSlash \o TemplateString(Prop(p, userIdName))
                ELSE MePath
    IN  IF Truthy(Prop(p, folderIdName))
        THEN root \o MailFolders \o TemplateString(Prop(p, folderIdName)) \o Messages
        ELSE root \o Messages

\* get-mail-message: pathTransform (user ids without '$')
GetMailMessagePathTransform(base, p) ==
    IF Truthy(Prop(p, userIdName))
    THEN Replace(base, MeSlash,
                 UsersSlash \o TemplateString(Prop(p, userIdName)) \o <<"/">>)
    ELSE base

\* send-mail: pathTransform
SendMailPathTransform(base, p) ==
    IF Truthy(Prop(p, userIdName))
    THEN UsersSlash \o TemplateString(Prop(p, userIdName)) \o SendMailSuffix
    ELSE base

\* s.split(',')
RECURSIVE Split(_, _)
Split(s, sep) ==
    LET i == IndexOf(s, sep)
    IN  IF i = 0 THEN <<s>>
        ELSE <<SubSeq(s, 1, i - 1)>> \o Split(SubSeq(s, i + Len(sep), Len(s)), sep)

WhiteSpace == {" ", "\t"}

RECURSIVE TrimStart(_)
TrimStart(s) ==
    IF s # <<>> /\ Head(s) \in WhiteSpace THEN TrimStart(Tail(s)) ELSE s

RECURSIVE TrimEnd(_)
TrimEnd(s) ==
    IF s # <<>> /\ s[Len(s)] \in WhiteSpace THEN TrimEnd(SubSeq(s, 1, Len(s) - 1))
    ELSE s

\* s.trim()
Trim(s) == TrimEnd(TrimStart(s))

Recipient(addr) == [emailAddress |-> [address |-> addr]]

\* a parse that keeps the empty segments
parseRecipientsKeepsEmpty(value) ==
    IF ~Truthy(value) \/ value.t # "str" THEN <<>>
    ELSE LET segments == Split(value.v, <<",">>)
         IN  [i \in DOMAIN segments |-> Recipient(Trim(segments[i]))]

parseRecipients(value) ==
    IF ~Truthy(value) \/ value.t # "str" THEN <<>>
    ELSE LET segments == Split(value.v, <<",">>)
             trimmed == [i \in DOMAIN segments |-> Trim(segments[i])]
             NonEmpty(x) == x # <<>>
             kept == SelectSeq(trimmed, NonEmpty)
         IN  [i \in DOMAIN kept |-> Recipient(kept[i])]

toName == <<"t","o">>

ccName == <<"c","c">>

bccName == <<"b","c","c">>

subjectName == <<"s","u","b","j","e","c","t">>

contentName == <<"c","o","n","t","e","n","t">>

isHtmlName == <<"i","s","H","t","m","l">>

HTMLChars == <<"H","T","M","L">>

TextChars == <<"T","e","x","t">>

\* no body built
NoMailBody ==
    [message |-> [subject |-> Undefined,
                  body |-> [contentType |-> <<>>, content |-> Undefined],
                  toRecipients |-> <<>>,
                  hasCcRecipients |-> FALSE, ccRecipients |-> <<>>,
                  hasBccRecipients |-> FALSE, bccRecipients |-> <<>>],
     saveToSentItems |-> FALSE]

\* send-mail: transform
SendMailTransform(p) ==
    [message |-> [subject |-> Prop(p, subjectName),
                  body |-> [contentType |-> IF Truthy(Prop(p, isHtmlName))
                                            THEN HTMLChars ELSE TextChars,
                            content |-> Prop(p, contentName)],
                  toRecipients |-> parseRecipients(Prop(p, toName)),
                  hasCcRecipients |-> Truthy(Prop(p, ccName)),
                  ccRecipients |-> IF Truthy(Prop(p, ccName))
                                   THEN parseRecipients(Prop(p, ccName)) ELSE <<>>,
                  hasBccRecipients |-> Truthy(Prop(p, bccName)),
                  bccRecipients |-> IF Truthy(Prop(p, bccName))
                                    THEN parseRecipients(Prop(p, bccName)) ELSE <<>>],
     saveToSentItems |-> TRUE]

---------------------------------------------------------------------------
(* registerGraphTools up to the server.tool calls                          *)
(*                                                                         *)
(* reg holds the arguments and the module state the function reads         *)
(* (api.endpoints, endpointsData, toolSchemaOverrides, readOnly, orgMode,  *)
(* enabledToolsPattern), the compiled filter, the position of the loop     *)
(* over the catalog, and the server.tool calls made so far.                *)

DeleteKey(m, key) == LET Other(e) == e.key # key IN SelectSeq(m, Other)

NoPattern == [given |-> FALSE, source |-> <<>>]

Pattern(source) == [given |-> TRUE, source |-> source]

NoRegex == [kind |-> "undefined", source |-> <<>>]

\* new RegExp(source, 'i') throws on an unterminated group
RegExpThrows(source) == Includes(source, <<"(">>)

\* a compilation that keeps the pattern it could not compile
CompilePatternKeepsInvalid(enabledToolsPattern) ==
    IF enabledToolsPattern.given /\ enabledToolsPattern.source # <<>>
    THEN [kind |-> "regex", source |-> enabledToolsPattern.source]
    ELSE NoRegex

\* enabledToolsRegex after the try/catch around new RegExp
CompilePattern(enabledToolsPattern) ==
    IF /\ enabledToolsPattern.given
       /\ enabledToolsPattern.source # <<>>
       /\ ~RegExpThrows(enabledToolsPattern.source)
    THEN [kind |-> "regex", source |-> enabledToolsPattern.source]
    ELSE NoRegex

\* regex.test(s) for a source of literal characters and the flag i
RegExpTest(regex, s) == Includes(toLowerCase(s), toLowerCase(regex.source))

NoConfig == [found |-> FALSE, scopes |-> FALSE, workScopes |-> FALSE]

\* endpointsData.find((e) => e.toolName === alias)
FindConfig(endpointsData, alias) ==
    LET hits == {i \in DOMAIN endpointsData : endpointsData[i].toolName = alias}
    IN  IF hits = {} THEN NoConfig
        ELSE LET e == endpointsData[CHOOSE i \in hits : \A j \in hits : i <= j]
             IN  [found |-> TRUE, scopes |-> e.scopes, workScopes |-> e.workScopes]

\* toolSchemaOverrides.get(alias)
GetOverride(toolSchemaOverrides, alias) ==
    IF alias \in Keys(toolSchemaOverrides) THEN ValueOf(toolSchemaOverrides, alias)
    ELSE NoOverride

\* a loop body without the read-only filter
FilterIgnoresReadOnly(r, t) ==
    LET endpointConfig == FindConfig(r.endpointsData, t.alias)
    IN  IF ~endpointConfig.found THEN "unconfigured"
        ELSE IF ~r.orgMode /\ ~endpointConfig.scopes /\ endpointConfig.workScopes
        THEN "workAccount"
        ELSE IF /\ r.enabledToolsRegex.kind = "regex"
                /\ ~RegExpTest(r.enabledToolsRegex, t.alias)
        THEN "pattern"
        ELSE "none"

\* which continue of the loop body the endpoint takes, "none" if it takes none
Filter(r, t) ==
    LET endpointConfig == FindConfig(r.endpointsData, t.alias)
    IN  IF ~endpointConfig.found THEN "unconfigured"
        ELSE IF ~r.orgMode /\ ~endpointConfig.scopes /\ endpointConfig.workScopes
        THEN "workAccount"
        ELSE IF r.readOnly /\ toUpperCase(t.method) # GETChars THEN "writeOperation"
        ELSE IF /\ r.enabledToolsRegex.kind = "regex"
                /\ ~RegExpTest(r.enabledToolsRegex, t.alias)
        THEN "pattern"
        ELSE "none"

\* paramSchema[param.name] = param.schema || z.any(), parameter by parameter
RECURSIVE DeclaredSchema(_, _)
DeclaredSchema(paramSchema, parameters) ==
    IF parameters = <<>> THEN paramSchema
    ELSE DeclaredSchema(
            SetKey(paramSchema, Head(parameters).name,
                   IF Head(parameters).schema = "undefined" THEN "any"
                   ELSE Head(parameters).schema),
            Tail(parameters))

\* delete paramSchema[name] for the declared parameters of class type
RECURSIVE DeleteDeclared(_, _, _)
DeleteDeclared(paramSchema, parameters, type) ==
    IF parameters = <<>> THEN paramSchema
    ELSE DeleteDeclared(
            IF Head(parameters).type = type
            THEN DeleteKey(paramSchema, Head(parameters).name) ELSE paramSchema,
            Tail(parameters), type)

\* paramSchema[key] = schema for the entries of override.schema
RECURSIVE MergeOverrideSchema(_, _)
MergeOverrideSchema(paramSchema, schemaKeys) ==
    IF schemaKeys = {} THEN paramSchema
    ELSE LET key == CHOOSE k \in schemaKeys : TRUE
         IN  MergeOverrideSchema(SetKey(paramSchema, key, "override"),
                                 schemaKeys \ {key})

\* a merge that forgets to remove the parameters the body transform owns
ParamSchemaKeepsBody(t, o) ==
    LET declared == DeclaredSchema(<<>>, t.parameters)
        flagged == IF toUpperCase(t.method) = GETChars /\ Includes(t.path, <<"/">>)
                   THEN SetKey(declared, fetchAllPagesName, "boolean")
                   ELSE declared
        lessQuery == IF o.queryTransform.kind # "absent"
                     THEN DeleteDeclared(flagged, t.parameters, "Query")
                     ELSE flagged
    IN  IF o.present /\ o.hasSchema
        THEN MergeOverrideSchema(lessQuery, o.schemaKeys)
        ELSE flagged

\* a schema that offers fetchAllPages on every endpoint
ParamSchemaAlwaysFlag(t, o) ==
    SetKey(DeclaredSchema(<<>>, t.parameters), fetchAllPagesName, "boolean")

\* the schema handed to server.tool
ParamSchema(t, o) ==
    LET declared == DeclaredSchema(<<>>, t.parameters)
        flagged == IF toUpperCase(t.method) = GETChars /\ Includes(t.path, <<"/">>)
                   THEN SetKey(declared, fetchAllPagesName, "boolean")
                   ELSE declared
        lessBody == IF o.transform.kind # "absent"
                    THEN DeleteKey(DeleteDeclared(flagged, t.parameters, "Body"),
                                   bodyName)
                    ELSE flagged
        lessQuery == IF o.queryTransform.kind # "absent"
                     THEN DeleteDeclared(lessBody, t.parameters, "Query")
                     ELSE lessBody
    IN  IF o.present /\ o.hasSchema
        THEN MergeOverrideSchema(lessQuery, o.schemaKeys)
        ELSE flagged

ExecutePrefix == <<"E","x","e","c","u","t","e"," ">>

RequestTo == <<" ","r","e","q","u","e","s","t"," ","t","o"," ">>

ToolDescription(t, o) ==
    IF o.present /\ o.description # <<>> THEN o.description
    ELSE IF t.description # <<>> THEN t.description
    ELSE ExecutePrefix \o toUpperCase(t.method) \o RequestTo \o t.path

\* the arguments of the server.tool call for endpoint t
RegisteredTool(t, o) ==
    [alias |-> t.alias,
     description |-> ToolDescription(t, o),
     paramSchema |-> ParamSchema(t, o),
     title |-> t.alias,
     readOnlyHint |-> toUpperCase(t.method) = GETChars]

---------------------------------------------------------------------------
(* The transport                                                           *)
(*                                                                         *)
(* graphClient.kind names what the graphRequest calls of an invocation may *)
(* do: "pages" any page-linked documents, "shapes" any result shape and    *)
(* flags, "endless" the same cursor-bearing page on every call.            *)

MaxItems == 2

MaxChain == 2

\* the items of the n-th page when it holds len of them
PageItems(n, len) == [i \in 1..len |-> 10 * n + i]

SkipName == <<"$","s","k","i","p">>

\* an absolute next-page URL
UrlLink(n) ==
    [kind |-> "url",
     pathname |-> PrefixV1 \o <<"/","m","e","/","m">>,
     search |-> << [key |-> SkipName, value |-> <<Digits[(n % 10) + 1]>>] >>]

UnparsableLink == [kind |-> "unparsable", pathname |-> <<>>, search |-> <<>>]

Doc(hasValue, value, nextLink, hasCount, count) ==
    [hasValue |-> hasValue, value |-> value, nextLink |-> nextLink,
     hasCount |-> hasCount, count |-> count]

JsonText(fmt, doc) == [fmt |-> fmt, doc |-> doc, chars |-> <<>>]

NotJsonText == [fmt |-> "notjson", doc |-> EmptyDoc, chars |-> <<>>]

NullText == [fmt |-> "null", doc |-> EmptyDoc, chars |-> <<>>]

\* the documents the n-th call may return as a page
PageDocs(n) ==
    {Doc(hv, IF hv THEN PageItems(n, len) ELSE <<>>, link, hc, IF hc THEN c ELSE 0) :
        hv \in BOOLEAN, len \in 0..MaxItems,
        link \in {NoLink} \cup (IF n <= MaxChain THEN {UrlLink(n), UnparsableLink} ELSE {}),
        hc \in (IF n = 1 THEN BOOLEAN ELSE {FALSE}), c \in {0, 7}}

PageTexts(n) ==
    {JsonText(fmt, d) : fmt \in (IF n = 1 THEN {"compact", "spaced"} ELSE {"compact"}),
                        d \in PageDocs(n)}
    \cup {NotJsonText, NullText}

Content(texts, isError, meta) ==
    [shape |-> "content", content |-> [i \in DOMAIN texts |-> [text |-> texts[i]]],
     isError |-> isError, meta |-> meta]

NoContent == [NoResponse EXCEPT !.shape = "nocontent"]

Returns(response) == [kind |-> "returns", response |-> response, message |-> <<>>]

Raises(message) == [kind |-> "throws", response |-> NoResponse, message |-> message]

SimpleText == JsonText("spaced", Doc(TRUE, <<1>>, NoLink, FALSE, 0))

\* the results of every shape and every combination of flags
ShapeResponses(n) ==
    {NoResponse, NoContent}
    \cup {Content(texts, e, m) :
            texts \in {<<>>, <<SimpleText>>, <<SimpleText, NotJsonText>>}
                      \cup (IF n = 1
                            THEN {<<JsonText("spaced",
                                             Doc(TRUE, <<1>>, UrlLink(1), FALSE, 0)),
                                    NotJsonText>>}
                            ELSE {}),
            e \in {"undefined", "true", "false"}, m \in {"undefined", "m"}}

\* what the n-th graphRequest call of an invocation may do
Outcomes(gc, n) ==
    CASE gc.kind = "endless" ->
            {Returns(Content(<<JsonText("compact",
                                        Doc(TRUE, <<n>>, UrlLink(0), TRUE, 7))>>,
                             "undefined", "undefined"))}
      [] gc.kind = "brief" ->
            {Returns(Content(<<JsonText("spaced",
                                        Doc(TRUE, PageItems(n, 1),
                                            IF n = 1 THEN UrlLink(1) ELSE NoLink,
                                            FALSE, 0))>>,
                             "undefined", "undefined")),
             Raises(<<"b","o","o","m">>)}
      [] gc.kind = "shapes" ->
            {Returns(r) : r \in ShapeResponses(n)}
            \cup {Raises(m) : m \in ExceptionMessages}
      [] OTHER ->
            {Returns(Content(<<t>>, "undefined", "undefined")) : t \in PageTexts(n)}
            \cup {Returns(NoContent), Returns(NoResponse),
                  Returns(Content(<<>>, "undefined", "undefined"))}
            \cup {Raises(m) : m \in ExceptionMessages}

---------------------------------------------------------------------------
(* One invocation of a registered tool's handler *)

Invocation(t, o, ps, kind) ==
    [tool |-> t, override |-> o, params |-> ps, graphClient |-> [kind |-> kind]]

FlagOn == [name |-> fetchAllPagesName, value |-> Bool(TRUE)]

FlagOff == [name |-> fetchAllPagesName, value |-> Bool(FALSE)]

\* invocations that exercise the pagination
PagingInvocations ==
    {Invocation(ListTool, NoOverride, ps, "pages") :
        ps \in {<<>>, <<FlagOn>>, <<FlagOff>>,
                <<[name |-> topName, value |-> Str(<<"5">>)], FlagOn>>}}

\* invocations that exercise every result shape and every throwing transform
ShapeInvocations ==
    {Invocation(t, o, ps, "shapes") :
        t \in {ListTool, PostTool},
        o \in {NoOverride} \cup {r \in OverrideRecords : r.hasSchema /\ r.schemaKeys = {}},
        ps \in {<<>>, <<FlagOn>>}}

\* invocations against a transport whose every page carries a cursor
EndlessInvocations ==
    {Invocation(ListTool, NoOverride, ps, "endless") : ps \in {<<FlagOn>>, <<FlagOff>>}}

\* the override records whose transforms return, none or one or all three present
RequestOverrides ==
    {NoOverride}
    \cup {r \in OverrideRecords :
            /\ WellFormedOverride(r)
            /\ ~Throws(r)
            /\ (r.hasSchema \/ r.schemaKeys = {})
            /\ Cardinality({f \in {"t", "q", "p"} :
                              \/ f = "t" /\ r.transform.kind = "returns"
                              \/ f = "q" /\ r.queryTransform.kind = "returns"
                              \/ f = "p" /\ r.pathTransform.kind = "returns"}) # 2}

DescriptionOnly ==
    [NoOverride EXCEPT !.present = TRUE, !.description = <<"r","i","c","h">>]

\* invocations that exercise the construction of the request
RequestInvocations ==
    UNION {{Invocation(t, o, ps, "brief") :
               o \in RequestOverrides, ps \in ParamSeqs(NamesFor(t), MaxParams)} :
           t \in {ListTool, BraceTool, PostTool, BareTool}}
    \cup UNION {{Invocation(t, o, ps, "brief") :
                    o \in {NoOverride, DescriptionOnly},
                    ps \in ParamSeqs(NamesFor(t), MaxParams)} :
                t \in {BothTool, TwiceTool} \cup {FlagTool(ty) : ty \in ParamTypes}}

NoOutput == [fn |-> "none", path |-> <<>>, body |-> NoMailBody]

NoPeer == [pc |-> "unused"]

NoRegistration == [pc |-> "unused"]

InitWith(invocations) ==
    /\ \E i \in invocations :
          /\ tool = i.tool
          /\ override = i.override
          /\ params = i.params
          /\ graphClient = i.graphClient
    /\ calls = <<>>
    /\ replies = <<>>
    /\ h = IdleHandler
    /\ reg = NoRegistration
    /\ peer = NoPeer
    /\ fnResult = NoOutput

Init == InitWith(PagingInvocations \cup ShapeInvocations \cup EndlessInvocations)

Step(r, reply) ==
    /\ h' = r.h
    /\ calls' = calls \o r.sent
    /\ replies' = replies \o reply
    /\ UNCHANGED <<tool, override, params, graphClient, reg, peer, fnResult>>

\* the protocol layer calls the handler with the validated parameters
Invoke ==
    /\ h.pc = "idle"
    /\ Step(HandlerCalled(tool, override, params, h), <<>>)

PrimaryReturns ==
    /\ h.pc = "awaitPrimary"
    /\ \E o \in Outcomes(graphClient, Len(calls)) :
          /\ o.kind = "returns"
          /\ Step(PrimaryReturned(tool, params, h, o.response), <<o>>)

PrimaryRaises ==
    /\ h.pc = "awaitPrimary"
    /\ \E o \in Outcomes(graphClient, Len(calls)) :
          /\ o.kind = "throws"
          /\ Step(PrimaryThrew(tool, h, o.message), <<o>>)

PageReturns ==
    /\ h.pc = "awaitPage"
    /\ \E o \in Outcomes(graphClient, Len(calls)) :
          /\ o.kind = "returns"
          /\ Step(PageReturned(tool, h, o.response), <<o>>)

PageRaises ==
    /\ h.pc = "awaitPage"
    /\ \E o \in Outcomes(graphClient, Len(calls)) :
          /\ o.kind = "throws"
          /\ Step(PageThrew(tool, h), <<o>>)

Next == Invoke \/ PrimaryReturns \/ PrimaryRaises \/ PageReturns \/ PageRaises

Spec == Init /\ [][Next]_vars

\* every graphRequest call returns or throws, and the handler runs on when it does
SpecLive == Init /\ [][Next]_vars /\ WF_vars(Next)

InitRequest == InitWith(RequestInvocations)

SpecRequest == InitRequest /\ [][Next]_vars

---------------------------------------------------------------------------
(* Two invocations of one tool in flight at the same time: the handler is  *)
(* an async function, so a second call may run between any two awaits of   *)
(* the first.                                                              *)

\* the steps a handler in state hr may take next, n calls made so far
Advance(t, o, gc, ps, hr, n) ==
    CASE hr.pc = "idle" -> {[r |-> HandlerCalled(t, o, ps, hr), reply |-> <<>>]}
      [] hr.pc = "awaitPrimary" ->
            {[r |-> IF out.kind = "returns"
                    THEN PrimaryReturned(t, ps, hr, out.response)
                    ELSE PrimaryThrew(t, hr, out.message),
              reply |-> <<out>>] : out \in Outcomes(gc, n)}
      [] hr.pc = "awaitPage" ->
            {[r |-> IF out.kind = "returns"
                    THEN PageReturned(t, hr, out.response)
                    ELSE PageThrew(t, hr),
              reply |-> <<out>>] : out \in Outcomes(gc, n)}
      [] OTHER -> {}

\* locals declared at module level: a call resumes on the other call's items
ResumeShared(own, other) ==
    [own EXCEPT !.allItems = other.allItems,
                !.combinedResponse = other.combinedResponse]

\* the locals a call resumes with after an await: its own
Resume(own, other) == own

ConcurrentParams ==
    {<<>>, <<FlagOn>>, <<[name |-> topName, value |-> Str(<<"5">>)], FlagOn>>}

InitConcurrent ==
    /\ tool = ListTool
    /\ override = NoOverride
    /\ params \in ConcurrentParams
    /\ graphClient = [kind |-> "brief"]
    /\ calls = <<>>
    /\ replies = <<>>
    /\ h = IdleHandler
    /\ reg = NoRegistration
    /\ \E ps \in ConcurrentParams :
          peer = [pc |-> "running", params |-> ps, calls |-> <<>>, replies |-> <<>>,
                  h |-> IdleHandler]
    /\ fnResult = NoOutput

\* the second invocation takes its next step
PeerAdvances ==
    /\ peer.pc = "running"
    /\ \E a \in Advance(tool, override, graphClient, peer.params,
                         Resume(peer.h, h), Len(peer.calls)) :
          peer' = [peer EXCEPT !.h = a.r.h,
                               !.calls = @ \o a.r.sent,
                               !.replies = @ \o a.reply]
    /\ UNCHANGED <<tool, override, params, graphClient, calls, replies, h, reg, fnResult>>

NextConcurrent ==
    Invoke \/ PrimaryReturns \/ PrimaryRaises \/ PageReturns \/ PageRaises
    \/ PeerAdvances

SpecConcurrent == InitConcurrent /\ [][NextConcurrent]_vars

---------------------------------------------------------------------------
(* The shipped overrides of the mail tools, applied to call parameters *)

ListMailTool == Endpoint(<<"l","i","s","t","-","m","a","i","l","-","m","e","s","s","a","g","e","s">>, <<"g","e","t">>, <<"/","m","e","/","m","e","s","s","a","g","e","s">>, <<>>)

GetMailTool ==
    Endpoint(<<"g","e","t","-","m","a","i","l","-","m","e","s","s","a","g","e">>, <<"g","e","t">>, <<"/","m","e","/","m","e","s","s","a","g","e","s","/","{","m","e","s","s","a","g","e","-","i","d","}">>,
             <<Param(<<"m","e","s","s","a","g","e","-","i","d">>, "Path")>>)

SendMailTool ==
    Endpoint(<<"s","e","n","d","-","m","a","i","l">>, <<"p","o","s","t">>, <<"/","m","e","/","s","e","n","d","M","a","i","l">>, <<Param(bodyName, "Body")>>)

\* the parameter objects with name absent or bound to one of values
Entries(name, values) == {<<>>} \cup {<<[name |-> name, value |-> v]>> : v \in values}

UserIds == {Str(<<>>), Str(<<"u","1">>), Str(<<"a","@","x">>)}

RecipientInputs ==
    {Str(<<>>), Str(<<"a","@","b">>), Str(<<"a","@","b",","," ","c","@","d">>), Str(<<" ",",","a","@","b",",",",">>), Str(<<" ">>), Num(<<"5">>)}

\* the calls of the three mail tools
MailInputs(t) ==
    CASE t = ListMailTool ->
            {u \o f : u \in Entries(userIdName, UserIds),
                      f \in Entries(folderIdName, {Str(<<>>), Str(<<"f","1">>)})}
      [] t = GetMailTool -> Entries(userIdName, UserIds)
      [] OTHER ->
            {to \o <<[name |-> subjectName, value |-> Str(<<"H","i">>)]>> \o cc \o bcc
                \o html \o u :
                to \in Entries(toName, RecipientInputs),
                cc \in Entries(ccName, {Str(<<>>), Str(<<"c","@","e">>), Str(<<" ">>)}),
                bcc \in Entries(bccName, {Str(<<"b","@","e">>)}),
                html \in Entries(isHtmlName, {Bool(TRUE), Bool(FALSE)}),
                u \in Entries(userIdName, {Str(<<>>), Str(<<"u","1">>)})}

InitOverrides ==
    /\ tool \in {ListMailTool, GetMailTool, SendMailTool}
    /\ params \in MailInputs(tool)
    /\ override = NoOverride
    /\ graphClient = [kind |-> "brief"]
    /\ calls = <<>>
    /\ replies = <<>>
    /\ h = IdleHandler
    /\ reg = NoRegistration
    /\ peer = NoPeer
    /\ fnResult = NoOutput

\* override.pathTransform(path, params)
ApplyPathTransform ==
    /\ fnResult.fn = "none"
    /\ fnResult' =
          [fnResult EXCEPT
             !.fn = "pathTransform",
             !.path = CASE tool = ListMailTool ->
                              ListMailMessagesPathTransform(tool.path, params)
                        [] tool = GetMailTool ->
                              GetMailMessagePathTransform(tool.path, params)
                        [] OTHER -> SendMailPathTransform(tool.path, params)]
    /\ UNCHANGED <<tool, override, params, graphClient, calls, replies, h, reg, peer>>

\* override.transform(params)
ApplyTransform ==
    /\ fnResult.fn = "none"
    /\ tool = SendMailTool
    /\ fnResult' = [fnResult EXCEPT !.fn = "transform",
                                   !.body = SendMailTransform(params)]
    /\ UNCHANGED <<tool, override, params, graphClient, calls, replies, h, reg, peer>>

NextOverrides == ApplyPathTransform \/ ApplyTransform

SpecOverrides == InitOverrides /\ [][NextOverrides]_vars

---------------------------------------------------------------------------
(* Registration at startup *)

\* GET me: a path without '/', its parameter declared without a validator
RootTool ==
    Endpoint(<<"r","o","o","t">>, <<"G","e","t">>, <<"m","e">>,
             <<[Param(qName, "Query") EXCEPT !.schema = "undefined"]>>)

\* POST /me/x with a description of its own
DescribedTool ==
    [BareTool EXCEPT !.description = <<"p","l","a","i","n">>]

\* an override that owns the query
QueryOverride ==
    [NoOverride EXCEPT !.present = TRUE, !.hasSchema = TRUE,
                       !.schemaKeys = {topName, qName},
                       !.queryTransform = [kind |-> "returns",
                                           out |-> << [key |-> <<"$","t","o","p">>,
                                                       value |-> <<"1","0">>] >>,
                                           message |-> <<>>]]

\* an override that owns the body
BodyOverride ==
    [NoOverride EXCEPT !.present = TRUE, !.hasSchema = TRUE,
                       !.schemaKeys = {idName, hName, dName},
                       !.transform = [kind |-> "returns",
                                      out |-> Obj(<<"b","u","i","l","t">>),
                                      message |-> <<>>]]

\* an override that owns the body and names none of the Body parameters
RenamingOverride == [BodyOverride EXCEPT !.schemaKeys = {topName, qName}]

\* a body transform without a schema
TransformOnly == [BodyOverride EXCEPT !.hasSchema = FALSE, !.schemaKeys = {}]

\* the endpoints.json entries for a tool name: none, or one with or without
\* scopes and workScopes
ConfigsFor(alias) ==
    {<<>>} \cup {<<[toolName |-> alias, scopes |-> sc, workScopes |-> ws]>> :
                    sc \in BOOLEAN, ws \in BOOLEAN}

\* the toolSchemaOverrides entries for a tool name
OverridesFor(alias, records) ==
    {<<>>} \cup {<<[key |-> alias, value |-> o]>> : o \in records}

Patterns ==
    {NoPattern, Pattern(<<>>), Pattern(<<"(">>), Pattern(<<"L","I","S","T">>)}

\* registerGraphTools is entered with the catalog <<e1, e2>>
StartsOf(e1, e2) ==
    {[pc |-> "start",
      endpoints |-> <<e1, e2>>,
      endpointsData |-> c2 \o c1,
      toolSchemaOverrides |-> o1 \o o2,
      readOnly |-> ro, orgMode |-> om, enabledToolsPattern |-> pat,
      enabledToolsRegex |-> NoRegex,
      i |-> 1, registered |-> <<>>, skipped |-> <<>>] :
        c1 \in ConfigsFor(e1.alias),
        c2 \in {<<>>, <<[toolName |-> e2.alias, scopes |-> TRUE, workScopes |-> FALSE]>>},
        o1 \in OverridesFor(e1.alias,
                            {DescriptionOnly, QueryOverride, BodyOverride, RenamingOverride,
                             TransformOnly}),
        o2 \in OverridesFor(e2.alias, {BodyOverride}),
        ro \in BOOLEAN, om \in BOOLEAN, pat \in Patterns}

\* the catalogs; their symbolic names are distinct
RegistrationStarts ==
    UNION {StartsOf(e1, e2) :
              e1 \in {ListTool, PostTool, RootTool}, e2 \in {BraceTool, DescribedTool}}

InitRegister ==
    /\ reg \in RegistrationStarts
    /\ tool = BareTool
    /\ override = NoOverride
    /\ params = <<>>
    /\ graphClient = [kind |-> "brief"]
    /\ calls = <<>>
    /\ replies = <<>>
    /\ h = IdleHandler
    /\ peer = NoPeer
    /\ fnResult = NoOutput

\* the try/catch around new RegExp
CompileFilter ==
    /\ reg.pc = "start"
    /\ reg' = [reg EXCEPT !.pc = "loop",
                          !.enabledToolsRegex = CompilePattern(reg.enabledToolsPattern)]
    /\ UNCHANGED <<tool, override, params, graphClient, calls, replies, h, peer, fnResult>>

\* an iteration of the loop over api.endpoints that ends in a continue
SkipEndpoint ==
    /\ reg.pc = "loop"
    /\ reg.i <= Len(reg.endpoints)
    /\ Filter(reg, reg.endpoints[reg.i]) # "none"
    /\ reg' = [reg EXCEPT !.i = @ + 1,
                          !.skipped = Append(@, [alias |-> reg.endpoints[reg.i].alias,
                                                 reason |-> Filter(reg, reg.endpoints[reg.i])])]
    /\ UNCHANGED <<tool, override, params, graphClient, calls, replies, h, peer, fnResult>>

\* an iteration that reaches server.tool
RegisterTool ==
    /\ reg.pc = "loop"
    /\ reg.i <= Len(reg.endpoints)
    /\ Filter(reg, reg.endpoints[reg.i]) = "none"
    /\ reg' = [reg EXCEPT !.i = @ + 1,
                          !.registered =
                              Append(@, RegisteredTool(
                                            reg.endpoints[reg.i],
                                            GetOverride(reg.toolSchemaOverrides,
                                                        reg.endpoints[reg.i].alias)))]
    /\ UNCHANGED <<tool, override, params, graphClient, calls, replies, h, peer, fnResult>>

NextRegister == CompileFilter \/ SkipEndpoint \/ RegisterTool

SpecRegister == InitRegister /\ [][NextRegister]_vars

---------------------------------------------------------------------------
(* Vocabulary of the properties *)

Done == h.pc = "done"

Returned == h.result.kind = "returned"

\* the text of the first content item of what a call returned
TextOf(reply) == reply.response.content[1].text

\* the call returned a content-bearing result whose first text is a JSON document
ParsedPage(reply) ==
    /\ reply.kind = "returns"
    /\ ContentBearing(reply.response)
    /\ TextOf(reply).fmt \in {"compact", "spaced"}

\* the call returned a content-bearing result whose first text does not parse
\* as a page document
MalformedPage(reply) ==
    /\ reply.kind = "returns"
    /\ ContentBearing(reply.response)
    /\ TextOf(reply).fmt \in {"notjson", "null"}

\* the value arrays of replies 1..k that carry one, concatenated in fetch order
RECURSIVE ConcatValues(_)
ConcatValues(k) ==
    IF k = 0 THEN <<>>
    ELSE ConcatValues(k - 1)
         \o (IF TextOf(replies[k]).doc.hasValue THEN TextOf(replies[k]).doc.value
             ELSE <<>>)

\* the result is the single error item the catch block builds
IsErrorItem(message) ==
    /\ Returned
    /\ Len(h.result.content) = 1
    /\ h.result.content[1].type = "text"
    /\ h.result.content[1].text.fmt = "chars"
    /\ h.result.isError = "true"
    /\ Includes(h.result.content[1].text.chars, ErrorPrefix \o tool.alias)
    /\ Includes(h.result.content[1].text.chars, message)

\* the result carries the content items of the first response, in order, the
\* texts from position from on exactly as the transport returned them
CarriesTransportItems(from) ==
    /\ Returned
    /\ replies # <<>>
    /\ replies[1].kind = "returns"
    /\ replies[1].response.shape = "content"
    /\ Len(h.result.content) = Len(replies[1].response.content)
    /\ \A i \in DOMAIN h.result.content :
          /\ h.result.content[i].type = "text"
          /\ i >= from => h.result.content[i].text = replies[1].response.content[i].text
    /\ h.result.isError = replies[1].response.isError
    /\ h.result.meta = replies[1].response.meta

\* the first response reaches the caller with every text as the transport returned it
FirstPageUnmodified == CarriesTransportItems(1)

PrimaryRaised == Done /\ Len(replies) = 1 /\ replies[1].kind = "throws"

---------------------------------------------------------------------------
(* C1 as stated: when graphRequest throws on the primary request of tool X, *)
(* the handler returns one text item, flagged isError, whose text contains  *)
(* "Error in tool X" and the exception's message verbatim.                  *)
C1_MessageVerbatim ==
    PrimaryRaised => IsErrorItem(replies[1].message)

(* C1 amended: when graphRequest throws on the primary request of tool X,   *)
(* the handler returns (it does not raise) exactly one text item, flagged   *)
(* isError, whose text is the JSON encoding of {error: "Error in tool X: "  *)
(* + message}: it contains "Error in tool X" and the message in its JSON-   *)
(* escaped form, which is the message itself when nothing in it needs an    *)
(* escape.                                                                  *)
C1_ErrorItemOnPrimaryThrow ==
    PrimaryRaised =>
        /\ IsErrorItem(JsonEscape(replies[1].message))
        /\ h.result.content[1].text.chars =
              <<"{","\"","e","r","r","o","r","\"",":","\"">>
              \o JsonEscape(ErrorPrefix \o tool.alias \o <<":"," ">> \o replies[1].message)
              \o <<"\"","}">>
        /\ (JsonEscape(replies[1].message) = replies[1].message
              => IsErrorItem(replies[1].message))

C1_Witness ==
    /\ PrimaryRaised
    /\ Returned
    /\ replies[1].message # JsonEscape(replies[1].message)
    /\ h.result.isError = "true"

---------------------------------------------------------------------------
\* the result is a completed merge: the first text is the re-serialized combined
\* document, the other items are the first response's
IsMergedResult ==
    /\ CarriesTransportItems(2)
    /\ h.merged
    /\ h.result.content # <<>>
    /\ h.result.content[1].text = JSONstringify(h.combinedResponse)

\* the result is some single error item
IsSomeErrorItem ==
    /\ Returned
    /\ Len(h.result.content) = 1
    /\ h.result.content[1].type = "text"
    /\ h.result.content[1].text.fmt = "chars"
    /\ Includes(h.result.content[1].text.chars, ErrorPrefix \o tool.alias)
    /\ h.result.isError = "true"

(* C2: whatever the override transforms and the transport calls do, the     *)
(* handler never raises and, once it has stopped, has returned exactly one  *)
(* result: the transport's content items (as returned, or with the first    *)
(* text replaced by the pagination merge) or a single error item flagged    *)
(* isError; until then it has returned nothing and is still able to run.    *)
C2_AlwaysOneResult ==
    /\ h.result.kind # "raised"
    /\ Done => (FirstPageUnmodified \/ IsMergedResult \/ IsSomeErrorItem)
    /\ ~Done => (h.result.kind = "none" /\ ENABLED Next)

C2_Witness ==
    /\ Done
    /\ Throws(override)
    /\ calls = <<>>
    /\ IsSomeErrorItem

\* every page of the invocation was returned, parsed, and the cursor chain ended
ChainCompleted ==
    /\ Done
    /\ FetchAllPages(params)
    /\ replies # <<>>
    /\ \A k \in DOMAIN replies : ParsedPage(replies[k])
    /\ \A k \in DOMAIN replies :
          TextOf(replies[k]).doc.nextLink.kind = (IF k < Len(replies) THEN "url" ELSE "absent")
    /\ Len(replies) <= MaxPages

(* C3: with fetchAllPages = true, when every page parses and the cursor     *)
(* chain ends before the page cap, the returned document's value is the     *)
(* concatenation, in fetch order, of the value arrays of all pages fetched, *)
(* it has no next-page cursor, and one follow-up request was issued per     *)
(* cursor received.                                                         *)
C3_MergedInFetchOrder ==
    ChainCompleted =>
        /\ IsMergedResult
        /\ h.result.content[1].text.doc.hasValue
        /\ h.result.content[1].text.doc.value = ConcatValues(Len(replies))
        /\ h.result.content[1].text.doc.nextLink = NoLink
        /\ Len(calls) = Len(replies)
        /\ Len(calls) - 1 =
              Cardinality({k \in DOMAIN replies :
                              TextOf(replies[k]).doc.nextLink.kind = "url"})

C3_Witness ==
    /\ ChainCompleted
    /\ Len(replies) = 3
    /\ \A k \in DOMAIN replies : Len(TextOf(replies[k]).doc.value) = MaxItems
    /\ Len(h.result.content[1].text.doc.value) = 3 * MaxItems

---------------------------------------------------------------------------
\* the invocation paginates against a transport whose every page carries a cursor
EndlessPaging == graphClient.kind = "endless" /\ FetchAllPages(params)

(* C4: with fetchAllPages = true and a transport whose every page carries a *)
(* cursor, the invocation issues at most 100 requests counting the first    *)
(* page, and its result holds exactly the items of the first 100 pages and  *)
(* is not an error.                                                         *)
C4_HaltsAtPageCap ==
    EndlessPaging =>
        /\ Len(calls) <= MaxPages
        /\ Done =>
              /\ IsMergedResult
              /\ h.result.isError # "true"
              /\ h.result.content[1].text.doc.value = ConcatValues(MaxPages)

\* pages 1..k were fetched and parsed, and the pagination then failed to parse:
\* page k+1 is not a page document, or the cursor of page k is not a URL
ParseFailureAfter(k) ==
    /\ Done
    /\ FetchAllPages(params)
    /\ k >= 1
    /\ Len(replies) >= k
    /\ \A j \in 1..k : ParsedPage(replies[j])
    /\ \A j \in 1..(k - 1) : TextOf(replies[j]).doc.nextLink.kind = "url"
    /\ \/ /\ Len(replies) = k
          /\ TextOf(replies[k]).doc.nextLink.kind = "unparsable"
       \/ /\ Len(replies) = k + 1
          /\ TextOf(replies[k]).doc.nextLink.kind = "url"
          /\ MalformedPage(replies[k + 1])

(* C5: with fetchAllPages = true, if a follow-up page's text or a cursor    *)
(* fails to parse, only the pagination is aborted: the handler returns the  *)
(* first response with its text exactly as the transport returned it (no    *)
(* later items merged in, the cursor field still there), and the flags are  *)
(* the transport's own.                                                     *)
C5_ParseFailureReturnsFirstPage ==
    \A k \in 1..(MaxChain + 1) :
        ParseFailureAfter(k) =>
            /\ FirstPageUnmodified
            /\ ~h.merged
            /\ h.result.content[1].text.doc.nextLink = TextOf(replies[1]).doc.nextLink
            /\ h.result.content[1].text.doc.value = TextOf(replies[1]).doc.value

C5_Witness ==
    /\ ParseFailureAfter(1)
    /\ Len(replies) = 2
    /\ TextOf(replies[2]).fmt = "notjson"
    /\ TextOf(replies[1]).fmt = "spaced"
    /\ h.result.content[1].text = TextOf(replies[1])
    /\ h.result.content[1].text.doc.nextLink.kind = "url"

(* C6 as stated: if pages 1..k (k >= 2) were fetched and merged and page    *)
(* k+1 fails to parse, the result holds what was accumulated, the items of  *)
(* pages 1..k, and is not a hard failure.                                   *)
C6_KeepsAccumulated ==
    \A k \in 2..(MaxChain + 1) :
        ParseFailureAfter(k) =>
            /\ Returned
            /\ h.result.isError # "true"
            /\ h.result.content[1].text.doc.value = ConcatValues(k)

(* C6 amended: if pages 1..k (k >= 2) were fetched and accumulated and page *)
(* k+1 fails to parse, the error stays inside the pagination step and the   *)
(* result is the first response exactly as the transport returned it: the   *)
(* items of pages 2..k are dropped with the accumulator; the result is not  *)
(* turned into an error.                                                    *)
C6_AccumulatedDropped ==
    \A k \in 2..(MaxChain + 1) :
        ParseFailureAfter(k) =>
            /\ FirstPageUnmodified
            /\ ~IsSomeErrorItem
            /\ h.allItems = ConcatValues(k)
            /\ h.result.content[1].text.doc.value = ConcatValues(1)

C6_Witness ==
    /\ ParseFailureAfter(2)
    /\ Len(replies) = 3
    /\ Len(TextOf(replies[2]).doc.value) > 0
    /\ Len(h.allItems) > Len(h.result.content[1].text.doc.value)
    /\ FirstPageUnmodified

---------------------------------------------------------------------------
(* Request construction *)

\* the handler has built the request and issued the primary call
RequestBuilt == h.pc # "idle" /\ ~Throws(override)

IsNotFlag(p) == p.name # fetchAllPagesName

Supplied == {params[i].name : i \in DOMAIN params}

DeclaredOf(type) ==
    {tool.parameters[i].name :
        i \in {j \in DOMAIN tool.parameters : tool.parameters[j].type = type}}

BracePattern(name) == <<"{">> \o name \o <<"}">>

ColonPattern(name) == <<":">> \o name

(* C7: whatever the call parameters and the endpoint's declaration          *)
(* (including a declared parameter named fetchAllPages, of any class), the  *)
(* parameter loop never puts fetchAllPages into the path, the query         *)
(* mapping, the headers or the body: the request is the one built from the  *)
(* parameters without it, and the flag only switches the pagination on.     *)
C7_FlagNeverRouted ==
    RequestBuilt =>
        /\ h.request = BuildRequest(tool, override, SelectSeq(params, IsNotFlag))
        /\ calls[1] = [path |-> h.request.path, options |-> h.request.options]
        /\ fetchAllPagesName \notin Keys(h.request.routed.queryParams)
        /\ fetchAllPagesName \notin Keys(h.request.options.headers)
        /\ h.request.routed.body.t # "bool"
        /\ \A pat \in {BracePattern(fetchAllPagesName), ColonPattern(fetchAllPagesName)} :
              Includes(AfterTransforms(tool, override).path, pat)
                  => Includes(calls[1].path, pat)
        /\ Len(calls) > 1 => FetchAllPages(params)

C7_Witness ==
    /\ RequestBuilt
    /\ \E ty \in ParamTypes : tool = FlagTool(ty)
    /\ fetchAllPagesName \in Supplied
    /\ Len(params) = 2
    /\ Len(calls) = 2

\* the supplied Query-classed parameters the claim is about
SuppliedQuery == {i \in DOMAIN params :
                    /\ FindParamDef(tool, params[i].name).type = "Query"
                    /\ params[i].name # fetchAllPagesName}

Restored(name) == <<"$">> \o toLowerCase(name)

InRestorationSet(name) == toLowerCase(name) \in Range(odataParams)

\* parameter i of rows is in the query mapping under key, and so in the query
\* string (of two parameters with one restored name the later one stays)
OnTheWireUnder(rows, i, key) ==
    /\ key \in Keys(h.request.routed.queryParams)
    /\ ValueOf(h.request.routed.queryParams, key) \in
          {TemplateString(params[j].value) :
              j \in {k \in rows :
                        toLowerCase(params[k].name) = toLowerCase(params[i].name)}}
    /\ Includes(calls[1].path,
                encodeURIComponent(key) \o <<"=">>
                \o encodeURIComponent(ValueOf(h.request.routed.queryParams, key)))

\* the restoration of the supplied Query parameters in the set rows
RestoredOnTheWire(rows) ==
    /\ \A i \in rows :
          /\ IF InRestorationSet(params[i].name)
             THEN /\ OnTheWireUnder(rows, i, Restored(params[i].name))
                  /\ params[i].name \notin Keys(h.request.routed.queryParams)
             ELSE OnTheWireUnder(rows, i, params[i].name)
          /\ params[i].name \in Keys(ParamSchema(tool, override))
    /\ Keys(h.request.routed.queryParams) =
          {IF InRestorationSet(params[i].name) THEN Restored(params[i].name)
           ELSE params[i].name : i \in rows}

Unowned == {i \in SuppliedQuery : ~OverrideOwns(override, params[i].name)}

Unresolved(path) ==
    {name \in DeclaredOf("Path") :
        Includes(path, BracePattern(name)) \/ Includes(path, ColonPattern(name))}

(* C9 as stated: for an endpoint without an override whose placeholders are *)
(* all declared Path parameters, when the call supplies each of them, the   *)
(* path handed to the transport has no {name} and no :name left, and        *)
(* substituting the same parameters again leaves the path unchanged.        *)
C9_SubstitutionTotalAndIdempotent ==
    (/\ RequestBuilt
     /\ ~override.present
     /\ DeclaredOf("Path") # {}
     /\ fetchAllPagesName \notin DeclaredOf("Path")
     /\ DeclaredOf("Path") \subseteq Supplied) =>
        /\ Unresolved(calls[1].path) = {}
        /\ RouteParams(tool, override, h.request.routed, params).path
              = h.request.routed.path

\* the loop over api.endpoints has ended
Registered == reg.pc = "loop" /\ reg.i > Len(reg.endpoints)

ToolsNamed(alias) == {j \in DOMAIN reg.registered : reg.registered[j].alias = alias}

IsGet(t) == toUpperCase(t.method) = GETChars

DeclaredNames(t) == {t.parameters[i].name : i \in DOMAIN t.parameters}

ConfiguredAs(alias) == {reg.endpointsData[i] :
                          i \in {j \in DOMAIN reg.endpointsData :
                                    reg.endpointsData[j].toolName = alias}}

\* the three filters, read off the arguments of registerGraphTools
ExcludedByMode(t) ==
    /\ ~reg.orgMode
    /\ \E c \in ConfiguredAs(t.alias) : ~c.scopes /\ c.workScopes

ExcludedByReadOnly(t) == reg.readOnly /\ ~IsGet(t)

ExcludedByPattern(t) ==
    /\ reg.enabledToolsPattern.given
    /\ reg.enabledToolsPattern.source # <<>>
    /\ ~RegExpThrows(reg.enabledToolsPattern.source)
    /\ ~Includes(toLowerCase(t.alias), toLowerCase(reg.enabledToolsPattern.source))

Unfiltered(t) == ~ExcludedByMode(t) /\ ~ExcludedByReadOnly(t) /\ ~ExcludedByPattern(t)

NotOverridden(t) == t.alias \notin Keys(reg.toolSchemaOverrides)

RegisteredMechanically(t) ==
    /\ Cardinality(ToolsNamed(t.alias)) = 1
    /\ \A j \in ToolsNamed(t.alias) :
          Keys(reg.registered[j].paramSchema) =
              DeclaredNames(t)
              \cup (IF IsGet(t) /\ Includes(t.path, <<"/">>)
                    THEN {fetchAllPagesName} ELSE {})

(* C10 as stated: once registration has ended, every endpoint of the        *)
(* catalog without an override and excluded by none of the three filters    *)
(* has exactly one registered tool of its name, whose schema keys are the   *)
(* declared parameter names, plus fetchAllPages iff it is a GET whose path  *)
(* contains '/'.                                                            *)
C10_EveryUnfilteredEndpointRegistered ==
    Registered =>
        \A i \in DOMAIN reg.endpoints :
            (NotOverridden(reg.endpoints[i]) /\ Unfiltered(reg.endpoints[i]))
                => RegisteredMechanically(reg.endpoints[i])

(* C10, amended: the same for every such endpoint that also has an entry    *)
(* under its name in endpoints.json; an endpoint without one is skipped.    *)
C10_EveryConfiguredEndpointRegistered ==
    Registered =>
        \A i \in DOMAIN reg.endpoints :
            (NotOverridden(reg.endpoints[i]) /\ Unfiltered(reg.endpoints[i]))
                => IF ConfiguredAs(reg.endpoints[i].alias) # {}
                   THEN RegisteredMechanically(reg.endpoints[i])
                   ELSE ToolsNamed(reg.endpoints[i].alias) = {}

C10_Witness ==
    /\ Registered
    /\ reg.endpoints = <<RootTool, BraceTool>>
    /\ reg.toolSchemaOverrides = <<>>
    /\ reg.enabledToolsPattern = Pattern(<<"(">>)
    /\ Len(reg.registered) = 2
    /\ fetchAllPagesName \in Keys(reg.registered[2].paramSchema)
    /\ fetchAllPagesName \notin Keys(reg.registered[1].paramSchema)

---------------------------------------------------------------------------
(* The override registry: toolSchemaOverrides.set and .get *)

MaxSets == 3

RegistryNames == {ListTool.alias, PostTool.alias}

RegistryRecords == {DescriptionOnly, QueryOverride, BodyOverride}

NoLookup == [name |-> <<>>, value |-> NoOverride, at |-> 0]

InitRegistry ==
    /\ reg = [pc |-> "registry", toolSchemaOverrides |-> <<>>, sets |-> <<>>,
              got |-> NoLookup]
    /\ tool = BareTool
    /\ override = NoOverride
    /\ params = <<>>
    /\ graphClient = [kind |-> "brief"]
    /\ calls = <<>>
    /\ replies = <<>>
    /\ h = IdleHandler
    /\ peer = NoPeer
    /\ fnResult = NoOutput

\* toolSchemaOverrides.set(name, record)
SetOverride ==
    /\ reg.pc = "registry"
    /\ Len(reg.sets) < MaxSets
    /\ \E name \in RegistryNames, record \in RegistryRecords :
          reg' = [reg EXCEPT
                    !.toolSchemaOverrides = SetKey(@, name, record),
                    !.sets = Append(@, [key |-> name, value |-> record])]
    /\ UNCHANGED <<tool, override, params, graphClient, calls, replies, h, peer, fnResult>>

\* toolSchemaOverrides.get(name)
LookupOverride ==
    /\ reg.pc = "registry"
    /\ \E name \in RegistryNames \cup {BareTool.alias} :
          reg' = [reg EXCEPT
                    !.got = [name |-> name,
                             value |-> GetOverride(reg.toolSchemaOverrides, name),
                             at |-> Len(reg.sets)]]
    /\ UNCHANGED <<tool, override, params, graphClient, calls, replies, h, peer, fnResult>>

NextRegistry == SetOverride \/ LookupOverride

SpecRegistry == InitRegistry /\ [][NextRegistry]_vars

\* the record of the last of the first n set calls under name, if any
LastSet(name, n) ==
    LET under == {i \in 1..n : reg.sets[i].key = name}
    IN  IF under = {} THEN NoOverride
        ELSE reg.sets[CHOOSE i \in under : \A k \in under : k <= i].value

(* C15: the registry holds at most one record per tool name; after any      *)
(* sequence of set calls, get(name) returns the record of the most recent   *)
(* set under that name, or nothing if there was none, so a set under one    *)
(* name leaves the record of every other name as it was.                    *)
C15_LastRegistrationWins ==
    reg.pc = "registry" =>
        /\ \A name \in RegistryNames \cup {BareTool.alias} :
              /\ Cardinality({i \in DOMAIN reg.toolSchemaOverrides :
                                reg.toolSchemaOverrides[i].key = name}) <= 1
              /\ GetOverride(reg.toolSchemaOverrides, name)
                    = LastSet(name, Len(reg.sets))
        /\ reg.got.value = LastSet(reg.got.name, reg.got.at)

C15_Witness ==
    /\ reg.pc = "registry"
    /\ Len(reg.sets) = 3
    /\ reg.sets[1].key = ListTool.alias
    /\ reg.sets[2].key = PostTool.alias
    /\ reg.sets[3].key = ListTool.alias
    /\ reg.sets[3].value # reg.sets[1].value
    /\ reg.got = [name |-> ListTool.alias, value |-> reg.sets[3].value, at |-> 3]
    /\ Len(reg.toolSchemaOverrides) = 2

---------------------------------------------------------------------------
(* Registration: schema ownership, read-only mode, name filter *)

\* the catalog endpoint a registered tool was made from
EndpointOf(j) ==
    reg.endpoints[CHOOSE i \in DOMAIN reg.endpoints :
                      reg.endpoints[i].alias = reg.registered[j].alias]

OverrideOf(j) == GetOverride(reg.toolSchemaOverrides, reg.registered[j].alias)

BodyDeclared(t) ==
    {t.parameters[i].name :
        i \in {k \in DOMAIN t.parameters : t.parameters[k].type = "Body"}}

\* the Body parameters of registered tool j that its schema has although the
\* override's schema does not name them
BodyLeftInSchema(j) ==
    (BodyDeclared(EndpointOf(j)) \cap Keys(reg.registered[j].paramSchema))
        \ OverrideOf(j).schemaKeys

(* C11 as stated: for every registered tool whose override has a body       *)
(* transform, with or without an override schema, no Body-classed declared  *)
(* parameter is a key of the tool's schema unless the override's schema has *)
(* that key.                                                                *)
C11_BodyParamsNeverExposed ==
    \A j \in DOMAIN reg.registered :
        (OverrideOf(j).present /\ OverrideOf(j).transform.kind # "absent")
            => BodyLeftInSchema(j) = {}

(* C11, amended: the same for every registered tool whose override has a    *)
(* body transform and a schema; with a body transform but no schema the     *)
(* Body-classed declared parameters all stay in the tool's schema.          *)
C11_BodyParamsHiddenBySchema ==
    \A j \in DOMAIN reg.registered :
        (OverrideOf(j).present /\ OverrideOf(j).transform.kind # "absent")
            => IF OverrideOf(j).hasSchema
               THEN BodyLeftInSchema(j) = {}
               ELSE BodyDeclared(EndpointOf(j))
                        \subseteq Keys(reg.registered[j].paramSchema)

C11_Witness ==
    /\ Registered
    /\ reg.endpoints[1] = PostTool
    /\ GetOverride(reg.toolSchemaOverrides, PostTool.alias) = RenamingOverride
    /\ Len(reg.registered) = 2
    /\ dName \notin Keys(reg.registered[1].paramSchema)
    /\ hName \in Keys(reg.registered[1].paramSchema)

(* C12: in read-only mode no tool whose method is not GET, compared         *)
(* case-insensitively, is registered, so every registered tool has          *)
(* readOnlyHint true; outside read-only mode the readOnlyHint of each       *)
(* registered tool equals (method is GET).                                  *)
C12_ReadOnlyRegistersOnlyGet ==
    \A j \in DOMAIN reg.registered :
        /\ reg.readOnly =>
              /\ toUpperCase(EndpointOf(j).method) = GETChars
              /\ reg.registered[j].readOnlyHint
        /\ reg.registered[j].readOnlyHint
              = (toUpperCase(EndpointOf(j).method) = GETChars)

C12_Witness ==
    /\ Registered
    /\ reg.readOnly
    /\ reg.endpoints = <<RootTool, DescribedTool>>
    /\ Len(reg.registered) = 1
    /\ reg.registered[1].alias = RootTool.alias
    /\ RootTool.method # GETChars
    /\ \E k \in DOMAIN reg.skipped :
          reg.skipped[k] = [alias |-> DescribedTool.alias, reason |-> "writeOperation"]

\* the server.tool calls the loop makes when no name filter is in force
RegisteredWithoutFilter ==
    LET unfiltered == [reg EXCEPT !.enabledToolsRegex = NoRegex]
        Kept(t) == Filter(unfiltered, t) = "none"
        kept == SelectSeq(reg.endpoints, Kept)
    IN  [j \in DOMAIN kept |->
            RegisteredTool(kept[j], GetOverride(reg.toolSchemaOverrides, kept[j].alias))]

NameMatches(tl) ==
    Includes(toLowerCase(tl.alias), toLowerCase(reg.enabledToolsPattern.source))

(* C13: with a name pattern that is no valid regular expression the         *)
(* registration runs to its end and registers exactly the tools it          *)
(* registers without a name filter; with a valid pattern it registers       *)
(* exactly those of them whose name matches the pattern case-insensitively. *)
C13_InvalidPatternDisablesFilter ==
    (Registered /\ reg.enabledToolsPattern.given) =>
        IF RegExpThrows(reg.enabledToolsPattern.source)
        THEN reg.registered = RegisteredWithoutFilter
        ELSE reg.registered = SelectSeq(RegisteredWithoutFilter, NameMatches)

C13_Witness ==
    /\ Registered
    /\ reg.enabledToolsPattern = Pattern(<<"(">>)
    /\ reg.endpoints = <<ListTool, BraceTool>>
    /\ Len(reg.registered) = 2
    /\ reg.skipped = <<>>

---------------------------------------------------------------------------
(* Transport calls of one invocation *)

(* C14: no request is retried. An invocation without fetchAllPages = true   *)
(* issues exactly one transport request when the request construction       *)
(* succeeds, and in any invocation a transport call that raised, on the     *)
(* primary request or on a follow-up page, is the last call of the          *)
(* invocation.                                                              *)
C14_NeverRetries ==
    /\ ~FetchAllPages(params) =>
          /\ Len(calls) <= 1
          /\ (Done /\ ~Throws(override)) => Len(calls) = 1
    /\ \A i \in DOMAIN replies :
          replies[i].kind = "throws" =>
              /\ i = Len(replies)
              /\ Len(calls) = i
              /\ Done

C14_Witness ==
    /\ Done
    /\ FetchAllPages(params)
    /\ Len(replies) = 2
    /\ replies[1].kind = "returns"
    /\ replies[2].kind = "throws"
    /\ Len(calls) = 2

---------------------------------------------------------------------------
(* Concurrent invocations *)

\* the handler run alone on parameters ps against a transport that answers
\* its calls with rs, in order: its final locals and the requests it made
RECURSIVE Feed(_, _, _, _)
Feed(t, ps, st, rs) ==
    IF rs = <<>> \/ st.h.pc \notin {"awaitPrimary", "awaitPage"} THEN st
    ELSE LET out == Head(rs)
             r == IF st.h.pc = "awaitPrimary"
                  THEN IF out.kind = "returns"
                       THEN PrimaryReturned(t, ps, st.h, out.response)
                       ELSE PrimaryThrew(t, st.h, out.message)
                  ELSE IF out.kind = "returns"
                       THEN PageReturned(t, st.h, out.response)
                       ELSE PageThrew(t, st.h)
         IN  Feed(t, ps, [h |-> r.h, calls |-> st.calls \o r.sent], Tail(rs))

RunAlone(t, o, ps, rs) ==
    LET start == HandlerCalled(t, o, ps, IdleHandler)
    IN  Feed(t, ps, [h |-> start.h, calls |-> start.sent], rs)

AsWhenAlone(ps, hr, cs, rs) ==
    hr.pc # "idle" => [h |-> hr, calls |-> cs] = RunAlone(tool, override, ps, rs)

---------------------------------------------------------------------------
(* The mail overrides *)

PathApplied == fnResult.fn = "pathTransform"

\* the path of list-mail-messages when user and folder decide as stated
ListMailPathWhen(withUser, withFolder) ==
    (IF withUser THEN UsersSlash \o Prop(params, userIdName).v ELSE MePath)
    \o (IF withFolder THEN MailFolders \o Prop(params, folderIdName).v ELSE <<>>)
    \o Messages

NonEmptyGiven(name) == name \in Supplied /\ Prop(params, name).v # <<>>

(* C17 as stated: the path override of list-mail-messages returns           *)
(* root + folder + '/messages', with root '/users/<userId>' if userId is    *)
(* supplied and '/me' otherwise, and folder '/mailFolders/<folderId>' if    *)
(* folderId is supplied and empty otherwise; those of get-mail-message and  *)
(* send-mail return the base path when userId is not supplied.              *)
C17_MailPathBySupplied ==
    PathApplied =>
        /\ tool = ListMailTool =>
              fnResult.path = ListMailPathWhen(userIdName \in Supplied,
                                               folderIdName \in Supplied)
        /\ (tool \in {GetMailTool, SendMailTool} /\ userIdName \notin Supplied)
              => fnResult.path = tool.path

(* C17, amended: the same with "supplied" read as "supplied and not the     *)
(* empty string": an empty userId gives the root '/me', an empty folderId   *)
(* no folder part, and an empty userId leaves the base path of              *)
(* get-mail-message and send-mail unchanged.                                *)
C17_MailPathByNonEmpty ==
    PathApplied =>
        /\ tool = ListMailTool =>
              fnResult.path = ListMailPathWhen(NonEmptyGiven(userIdName),
                                               NonEmptyGiven(folderIdName))
        /\ (tool \in {GetMailTool, SendMailTool} /\ ~NonEmptyGiven(userIdName))
              => fnResult.path = tool.path

C17_Witness ==
    /\ PathApplied
    /\ tool = ListMailTool
    /\ fnResult.path = <<"/","u","s","e","r","s","/","u","1","/","m","a","i","l","F","o","l","d","e","r","s","/","f","1","/","m","e","s","s","a","g","e","s">>
    /\ tool.path # fnResult.path

\* the recipients the inputs of the model stand for
SegmentsOf(value) ==
    CASE value = Str(<<"a","@","b">>) -> <<<<"a","@","b">>>>
      [] value = Str(<<"a","@","b",","," ","c","@","d">>) -> <<<<"a","@","b">>, <<"c","@","d">>>>
      [] value = Str(<<" ",",","a","@","b",",",",">>) -> <<<<"a","@","b">>>>
      [] value = Str(<<"c","@","e">>) -> <<<<"c","@","e">>>>
      [] value = Str(<<"b","@","e">>) -> <<<<"b","@","e">>>>
      [] OTHER -> <<>>

AddressesOf(recipients) ==
    [i \in DOMAIN recipients |-> recipients[i].emailAddress.address]

WellFormedAddresses(recipients) ==
    \A i \in DOMAIN recipients :
        LET a == recipients[i].emailAddress.address
        IN  /\ a # <<>>
            /\ ~Includes(a, <<",">>)
            /\ Head(a) \notin WhiteSpace
            /\ a[Len(a)] \notin WhiteSpace

(* C18: the body override of send-mail gives one recipient per non-empty    *)
(* trimmed segment of the comma-separated string, in input order (none for  *)
(* a non-string or empty input); the body always has message.toRecipients   *)
(* and saveToSentItems = true, has ccRecipients (bccRecipients) iff cc      *)
(* (bcc) is supplied non-empty, and has body.contentType 'HTML' if isHtml   *)
(* is true and 'Text' otherwise.                                            *)
C18_SendMailBody ==
    fnResult.fn = "transform" =>
        LET m == fnResult.body.message
        IN  /\ AddressesOf(m.toRecipients) = SegmentsOf(Prop(params, toName))
            /\ WellFormedAddresses(m.toRecipients)
            /\ fnResult.body.saveToSentItems
            /\ m.hasCcRecipients = NonEmptyGiven(ccName)
            /\ m.hasCcRecipients =>
                  AddressesOf(m.ccRecipients) = SegmentsOf(Prop(params, ccName))
            /\ m.hasBccRecipients = NonEmptyGiven(bccName)
            /\ m.hasBccRecipients =>
                  AddressesOf(m.bccRecipients) = SegmentsOf(Prop(params, bccName))
            /\ m.body.contentType = IF Prop(params, isHtmlName) = Bool(TRUE)
                                    THEN HTMLChars ELSE TextChars

C18_Witness ==
    /\ fnResult.fn = "transform"
    /\ Prop(params, toName) = Str(<<" ",",","a","@","b",",",",">>)
    /\ Prop(params, ccName) = Str(<<" ">>)
    /\ Prop(params, isHtmlName) = Bool(TRUE)
    /\ Len(fnResult.body.message.toRecipients) = 1
    /\ fnResult.body.message.hasCcRecipients
    /\ fnResult.body.message.ccRecipients = <<>>
    /\ ~fnResult.body.message.hasBccRecipients

---------------------------------------------------------------------------
(* The shipped override table                                              *)
(*                                                                         *)
(* The module body of tool-schemas.ts fills toolSchemaOverrides by one     *)
(* Map.set call per record.  Registration reads of a record its            *)
(* description, the keys of its schema and which functions it has; the     *)
(* functions are not applied there, so a record carries them as            *)
(* [kind |-> "function"].                                                  *)

searchName == <<"s","e","a","r","c","h">>

countName == <<"c","o","u","n","t">>

genericListSchema == {searchName, countName}

ShippedFunction(given, absent) ==
    IF given THEN [absent EXCEPT !.kind = "function"] ELSE absent

\* the arguments of one toolSchemaOverrides.set call
Shipped(name, description, hasSchema, schemaKeys, tr, qt, pt) ==
    [key |-> name,
     value |-> [present |-> TRUE, description |-> description,
                hasSchema |-> hasSchema, schemaKeys |-> schemaKeys,
                transform |-> ShippedFunction(tr, NoTransform),
                queryTransform |-> ShippedFunction(qt, NoQueryTransform),
                pathTransform |-> ShippedFunction(pt, NoPathTransform)]]

\* the set calls of the module body, in source order
ShippedSets == <<
    \* lines 59-83
    Shipped(<<"l","i","s","t","-","m","a","i","l","-","m","e","s","s","a","g","e","s">>,
            <<"L","i","s","t"," ","e","m","a","i","l","s","."," ","S","e","a","r","c","h","e","s",
            " ","y","o","u","r"," ","m","a","i","l","b","o","x"," ","b","y"," ","d","e","f","a",
            "u","l","t","."," ","S","e","t"," ","f","o","l","d","e","r","I","d"," ","t","o"," ",
            "l","i","s","t"," ","a"," ","s","p","e","c","i","f","i","c"," ","f","o","l","d","e",
            "r",","," ","o","r"," ","u","s","e","r","I","d"," ","t","o"," ","a","c","c","e","s",
            "s"," ","a"," ","s","h","a","r","e","d"," ","m","a","i","l","b","o","x",".">>,
            TRUE, {<<"s","e","a","r","c","h">>, <<"f","r","o","m">>, <<"s","u","b","j","e","c","t">>,
             <<"u","n","r","e","a","d","O","n","l","y">>, <<"c","o","u","n","t">>, <<"f","o","l",
            "d","e","r","I","d">>, <<"u","s","e","r","I","d">>},
            FALSE, TRUE, TRUE),
    \* lines 85-98
    Shipped(<<"g","e","t","-","m","a","i","l","-","m","e","s","s","a","g","e">>,
            <<"G","e","t"," ","a"," ","s","p","e","c","i","f","i","c"," ","e","m","a","i","l"," ",
            "b","y"," ","m","e","s","s","a","g","e","-","i","d","."," ","S","e","t"," ","u","s",
            "e","r","I","d"," ","f","o","r"," ","s","h","a","r","e","d"," ","m","a","i","l","b",
            "o","x"," ","a","c","c","e","s","s",".">>,
            TRUE, {<<"u","s","e","r","I","d">>},
            FALSE, FALSE, TRUE),
    \* lines 100-103
    Shipped(<<"l","i","s","t","-","m","a","i","l","-","f","o","l","d","e","r","s">>,
            <<"L","i","s","t"," ","y","o","u","r"," ","m","a","i","l"," ","f","o","l","d","e","r",
            "s"," ","(","i","n","b","o","x",","," ","s","e","n","t"," ","i","t","e","m","s",",",
            " ","d","r","a","f","t","s",","," ","e","t","c",".",")","."," ","R","e","t","u","r",
            "n","s"," ","f","o","l","d","e","r"," ","n","a","m","e","s"," ","a","n","d"," ","I",
            "D","s",".">>,
            FALSE, {},
            FALSE, FALSE, FALSE),
    \* lines 105-107
    Shipped(<<"l","i","s","t","-","m","a","i","l","-","a","t","t","a","c","h","m","e","n","t","s">>,
            <<"L","i","s","t"," ","a","l","l"," ","a","t","t","a","c","h","m","e","n","t","s"," ",
            "o","n"," ","a"," ","s","p","e","c","i","f","i","c"," ","e","m","a","i","l","."," ",
            "P","r","o","v","i","d","e"," ","t","h","e"," ","m","e","s","s","a","g","e","-","i",
            "d",".">>,
            FALSE, {},
            FALSE, FALSE, FALSE),
    \* lines 109-111
    Shipped(<<"g","e","t","-","m","a","i","l","-","a","t","t","a","c","h","m","e","n","t">>,
            <<"G","e","t"," ","a"," ","s","p","e","c","i","f","i","c"," ","a","t","t","a","c","h",
            "m","e","n","t"," ","f","r","o","m"," ","a","n"," ","e","m","a","i","l","."," ","P",
            "r","o","v","i","d","e"," ","m","e","s","s","a","g","e","-","i","d"," ","a","n","d",
            " ","a","t","t","a","c","h","m","e","n","t","-","i","d",".">>,
            FALSE, {},
            FALSE, FALSE, FALSE),
    \* lines 115-144
    Shipped(<<"s","e","n","d","-","m","a","i","l">>,
            <<"S","e","n","d"," ","a","n"," ","e","m","a","i","l","."," ","S","e","t"," ","u","s",
            "e","r","I","d"," ","t","o"," ","s","e","n","d"," ","f","r","o","m"," ","a"," ","s",
            "h","a","r","e","d"," ","m","a","i","l","b","o","x",".">>,
            TRUE, {<<"t","o">>, <<"s","u","b","j","e","c","t">>, <<"c","o","n","t","e","n","t">>, <<"c",
            "c">>, <<"b","c","c">>, <<"i","s","H","t","m","l">>, <<"u","s","e","r","I","d">>},
            TRUE, FALSE, TRUE),
    \* lines 146-159
    Shipped(<<"c","r","e","a","t","e","-","d","r","a","f","t","-","e","m","a","i","l">>,
            <<"C","r","e","a","t","e"," ","a"," ","d","r","a","f","t"," ","e","m","a","i","l"," ",
            "t","h","a","t"," ","c","a","n"," ","b","e"," ","e","d","i","t","e","d"," ","a","n",
            "d"," ","s","e","n","t"," ","l","a","t","e","r",".">>,
            TRUE, {<<"s","u","b","j","e","c","t">>, <<"c","o","n","t","e","n","t">>, <<"t","o">>, <<"i",
            "s","H","t","m","l">>},
            TRUE, FALSE, FALSE),
    \* lines 161-168
    Shipped(<<"m","o","v","e","-","m","a","i","l","-","m","e","s","s","a","g","e">>,
            <<"M","o","v","e"," ","a","n"," ","e","m","a","i","l"," ","t","o"," ","a"," ","f","o",
            "l","d","e","r","."," ","C","o","m","m","o","n"," ","f","o","l","d","e","r"," ","n",
            "a","m","e","s",":"," ","\"","i","n","b","o","x","\"",","," ","\"","d","r","a","f",
            "t","s","\"",","," ","\"","d","e","l","e","t","e","d","i","t","e","m","s","\"",",",
            " ","\"","s","e","n","t","i","t","e","m","s","\"","."," ","U","s","e"," ","l","i","s",
            "t","-","m","a","i","l","-","f","o","l","d","e","r","s"," ","t","o"," ","f","i","n",
            "d"," ","o","t","h","e","r"," ","f","o","l","d","e","r"," ","I","D","s",".">>,
            TRUE, {<<"d","e","s","t","i","n","a","t","i","o","n","I","d">>},
            TRUE, FALSE, FALSE),
    \* lines 170-183
    Shipped(<<"a","d","d","-","m","a","i","l","-","a","t","t","a","c","h","m","e","n","t">>,
            <<"A","d","d"," ","a"," ","f","i","l","e"," ","a","t","t","a","c","h","m","e","n","t",
            " ","t","o"," ","a"," ","d","r","a","f","t"," ","e","m","a","i","l"," ","m","e","s",
            "s","a","g","e",".">>,
            TRUE, {<<"n","a","m","e">>, <<"c","o","n","t","e","n","t","B","y","t","e","s">>, <<"c","o",
            "n","t","e","n","t","T","y","p","e">>},
            TRUE, FALSE, FALSE),
    \* lines 187-189
    Shipped(<<"d","e","l","e","t","e","-","m","a","i","l","-","m","e","s","s","a","g","e">>,
            <<"D","e","l","e","t","e"," ","a","n"," ","e","m","a","i","l","."," ","P","r","o","v",
            "i","d","e"," ","t","h","e"," ","m","e","s","s","a","g","e","-","i","d"," ","o","f",
            " ","t","h","e"," ","e","m","a","i","l"," ","t","o"," ","d","e","l","e","t","e",".">>,
            FALSE, {},
            FALSE, FALSE, FALSE),
    \* lines 191-194
    Shipped(<<"d","e","l","e","t","e","-","m","a","i","l","-","a","t","t","a","c","h","m","e","n","t">>,
            <<"D","e","l","e","t","e"," ","a","n"," ","a","t","t","a","c","h","m","e","n","t"," ",
            "f","r","o","m"," ","a","n"," ","e","m","a","i","l","."," ","P","r","o","v","i","d",
            "e"," ","m","e","s","s","a","g","e","-","i","d"," ","a","n","d"," ","a","t","t","a",
            "c","h","m","e","n","t","-","i","d",".">>,
            FALSE, {},
            FALSE, FALSE, FALSE),
    \* lines 202-229
    Shipped(<<"l","i","s","t","-","c","a","l","e","n","d","a","r","-","e","v","e","n","t","s">>,
            <<"L","i","s","t"," ","y","o","u","r"," ","c","a","l","e","n","d","a","r"," ","e","v",
            "e","n","t","s","."," ","C","a","n"," ","f","i","l","t","e","r"," ","b","y"," ","d",
            "a","t","e"," ","r","a","n","g","e",","," ","s","u","b","j","e","c","t",","," ","o",
            "r"," ","s","e","a","r","c","h"," ","t","e","x","t",".">>,
            TRUE, {<<"s","e","a","r","c","h">>, <<"s","t","a","r","t","D","a","t","e">>, <<"e","n","d",
            "D","a","t","e">>, <<"c","o","u","n","t">>},
            FALSE, TRUE, FALSE),
    \* lines 231-233
    Shipped(<<"g","e","t","-","c","a","l","e","n","d","a","r","-","e","v","e","n","t">>,
            <<"G","e","t"," ","a"," ","s","p","e","c","i","f","i","c"," ","c","a","l","e","n","d",
            "a","r"," ","e","v","e","n","t"," ","b","y"," ","i","t","s"," ","e","v","e","n","t",
            "-","i","d","."," ","R","e","t","u","r","n","s"," ","f","u","l","l"," ","e","v","e",
            "n","t"," ","d","e","t","a","i","l","s",".">>,
            FALSE, {},
            FALSE, FALSE, FALSE),
    \* lines 235-255
    Shipped(<<"g","e","t","-","c","a","l","e","n","d","a","r","-","v","i","e","w">>,
            <<"G","e","t"," ","c","a","l","e","n","d","a","r"," ","e","v","e","n","t","s"," ","i",
            "n"," ","a"," ","s","p","e","c","i","f","i","c"," ","d","a","t","e","/","t","i","m",
            "e"," ","r","a","n","g","e","."," ","E","x","p","a","n","d","s"," ","r","e","c","u",
            "r","r","i","n","g"," ","e","v","e","n","t","s"," ","i","n","t","o"," ","i","n","d",
            "i","v","i","d","u","a","l"," ","o","c","c","u","r","r","e","n","c","e","s",".">>,
            TRUE, {<<"s","t","a","r","t","D","a","t","e","T","i","m","e">>, <<"e","n","d","D","a","t",
            "e","T","i","m","e">>, <<"c","o","u","n","t">>},
            FALSE, TRUE, FALSE),
    \* lines 257-260
    Shipped(<<"l","i","s","t","-","c","a","l","e","n","d","a","r","s">>,
            <<"L","i","s","t"," ","a","l","l"," ","y","o","u","r"," ","c","a","l","e","n","d","a",
            "r","s"," ","(","p","r","i","m","a","r","y",","," ","s","h","a","r","e","d",","," ",
            "g","r","o","u","p"," ","c","a","l","e","n","d","a","r","s",")","."," ","R","e","t",
            "u","r","n","s"," ","c","a","l","e","n","d","a","r"," ","n","a","m","e","s"," ","a",
            "n","d"," ","I","D","s",".">>,
            FALSE, {},
            FALSE, FALSE, FALSE),
    \* lines 264-302
    Shipped(<<"c","r","e","a","t","e","-","c","a","l","e","n","d","a","r","-","e","v","e","n","t">>,
            <<"C","r","e","a","t","e"," ","a"," ","c","a","l","e","n","d","a","r"," ","e","v","e",
            "n","t","."," ","D","a","t","e","s"," ","s","h","o","u","l","d"," ","b","e"," ","I",
            "S","O"," ","8","6","0","1"," ","f","o","r","m","a","t"," ","l","i","k","e"," ","\"",
            "2","0","2","5","-","0","3","-","1","5","T","0","9",":","0","0",":","0","0","\"",
            ".">>,
            TRUE, {<<"s","u","b","j","e","c","t">>, <<"s","t","a","r","t","D","a","t","e","T","i","m",
            "e">>, <<"e","n","d","D","a","t","e","T","i","m","e">>, <<"t","i","m","e","Z","o","n",
            "e">>, <<"l","o","c","a","t","i","o","n">>, <<"a","t","t","e","n","d","e","e","s">>,
             <<"b","o","d","y">>, <<"i","s","O","n","l","i","n","e","M","e","e","t","i","n",
            "g">>},
            TRUE, FALSE, FALSE),
    \* lines 304-325
    Shipped(<<"u","p","d","a","t","e","-","c","a","l","e","n","d","a","r","-","e","v","e","n","t">>,
            <<"U","p","d","a","t","e"," ","a"," ","c","a","l","e","n","d","a","r"," ","e","v","e",
            "n","t","."," ","O","n","l","y"," ","p","r","o","v","i","d","e"," ","t","h","e"," ",
            "f","i","e","l","d","s"," ","y","o","u"," ","w","a","n","t"," ","t","o"," ","c","h",
            "a","n","g","e",".">>,
            TRUE, {<<"s","u","b","j","e","c","t">>, <<"s","t","a","r","t","D","a","t","e","T","i","m",
            "e">>, <<"e","n","d","D","a","t","e","T","i","m","e">>, <<"t","i","m","e","Z","o","n",
            "e">>, <<"l","o","c","a","t","i","o","n">>, <<"b","o","d","y">>},
            TRUE, FALSE, FALSE),
    \* lines 329-331
    Shipped(<<"d","e","l","e","t","e","-","c","a","l","e","n","d","a","r","-","e","v","e","n","t">>,
            <<"D","e","l","e","t","e"," ","a"," ","c","a","l","e","n","d","a","r"," ","e","v","e",
            "n","t","."," ","P","r","o","v","i","d","e"," ","t","h","e"," ","e","v","e","n","t",
            "-","i","d",".">>,
            FALSE, {},
            FALSE, FALSE, FALSE),
    \* lines 339-342
    Shipped(<<"l","i","s","t","-","t","o","d","o","-","t","a","s","k","-","l","i","s","t","s">>,
            <<"L","i","s","t"," ","y","o","u","r"," ","T","o","-","D","o"," ","t","a","s","k"," ",
            "l","i","s","t","s","."," ","R","e","t","u","r","n","s"," ","l","i","s","t"," ","n",
            "a","m","e","s"," ","a","n","d"," ","I","D","s"," ","n","e","e","d","e","d"," ","f",
            "o","r"," ","o","t","h","e","r"," ","T","o","-","D","o"," ","o","p","e","r","a","t",
            "i","o","n","s",".">>,
            FALSE, {},
            FALSE, FALSE, FALSE),
    \* lines 344-359
    Shipped(<<"l","i","s","t","-","t","o","d","o","-","t","a","s","k","s">>,
            <<"L","i","s","t"," ","t","a","s","k","s"," ","i","n"," ","a"," ","T","o","-","D","o",
            " ","t","a","s","k"," ","l","i","s","t","."," ","P","r","o","v","i","d","e"," ","t",
            "h","e"," ","t","a","s","k"," ","l","i","s","t"," ","I","D",".">>,
            TRUE, {<<"s","t","a","t","u","s">>, <<"c","o","u","n","t">>},
            FALSE, TRUE, FALSE),
    \* lines 361-363
    Shipped(<<"g","e","t","-","t","o","d","o","-","t","a","s","k">>,
            <<"G","e","t"," ","a"," ","s","p","e","c","i","f","i","c"," ","T","o","-","D","o"," ",
            "t","a","s","k"," ","b","y"," ","t","a","s","k"," ","l","i","s","t"," ","I","D"," ",
            "a","n","d"," ","t","a","s","k"," ","I","D",".">>,
            FALSE, {},
            FALSE, FALSE, FALSE),
    \* lines 367-387
    Shipped(<<"c","r","e","a","t","e","-","t","o","d","o","-","t","a","s","k">>,
            <<"C","r","e","a","t","e"," ","a"," ","T","o","-","D","o"," ","t","a","s","k","."," ",
            "R","e","q","u","i","r","e","s"," ","a"," ","t","i","t","l","e","."," ","U","s","e",
            " ","l","i","s","t","-","t","o","d","o","-","t","a","s","k","-","l","i","s","t","s",
            " ","t","o"," ","g","e","t"," ","t","h","e"," ","t","a","s","k"," ","l","i","s","t",
            " ","I","D",".">>,
            TRUE, {<<"t","i","t","l","e">>, <<"d","u","e","D","a","t","e">>, <<"n","o","t","e","s">>,
             <<"i","m","p","o","r","t","a","n","c","e">>},
            TRUE, FALSE, FALSE),
    \* lines 389-410
    Shipped(<<"u","p","d","a","t","e","-","t","o","d","o","-","t","a","s","k">>,
            <<"U","p","d","a","t","e"," ","a"," ","T","o","-","D","o"," ","t","a","s","k","."," ",
            "O","n","l","y"," ","p","r","o","v","i","d","e"," ","t","h","e"," ","f","i","e","l",
            "d","s"," ","y","o","u"," ","w","a","n","t"," ","t","o"," ","c","h","a","n","g","e",
            ".">>,
            TRUE, {<<"t","i","t","l","e">>, <<"s","t","a","t","u","s">>, <<"d","u","e","D","a","t",
            "e">>, <<"i","m","p","o","r","t","a","n","c","e">>, <<"n","o","t","e","s">>},
            TRUE, FALSE, FALSE),
    \* lines 414-416
    Shipped(<<"d","e","l","e","t","e","-","t","o","d","o","-","t","a","s","k">>,
            <<"D","e","l","e","t","e"," ","a"," ","T","o","-","D","o"," ","t","a","s","k","."," ",
            "P","r","o","v","i","d","e"," ","t","h","e"," ","t","a","s","k"," ","l","i","s","t",
            " ","I","D"," ","a","n","d"," ","t","a","s","k"," ","I","D",".">>,
            FALSE, {},
            FALSE, FALSE, FALSE),
    \* lines 424-426
    Shipped(<<"l","i","s","t","-","p","l","a","n","n","e","r","-","t","a","s","k","s">>,
            <<"L","i","s","t"," ","a","l","l"," ","y","o","u","r"," ","P","l","a","n","n","e","r",
            " ","t","a","s","k","s"," ","a","c","r","o","s","s"," ","a","l","l"," ","p","l","a",
            "n","s",".">>,
            FALSE, {},
            FALSE, FALSE, FALSE),
    \* lines 428-430
    Shipped(<<"g","e","t","-","p","l","a","n","n","e","r","-","p","l","a","n">>,
            <<"G","e","t"," ","d","e","t","a","i","l","s"," ","o","f"," ","a"," ","s","p","e","c",
            "i","f","i","c"," ","P","l","a","n","n","e","r"," ","p","l","a","n"," ","b","y"," ",
            "i","t","s"," ","p","l","a","n"," ","I","D",".">>,
            FALSE, {},
            FALSE, FALSE, FALSE),
    \* lines 432-434
    Shipped(<<"l","i","s","t","-","p","l","a","n","-","t","a","s","k","s">>,
            <<"L","i","s","t"," ","a","l","l"," ","t","a","s","k","s"," ","i","n"," ","a"," ","s",
            "p","e","c","i","f","i","c"," ","P","l","a","n","n","e","r"," ","p","l","a","n",".",
            " ","P","r","o","v","i","d","e"," ","t","h","e"," ","p","l","a","n"," ","I","D",".">>,
            FALSE, {},
            FALSE, FALSE, FALSE),
    \* lines 436-438
    Shipped(<<"g","e","t","-","p","l","a","n","n","e","r","-","t","a","s","k">>,
            <<"G","e","t"," ","d","e","t","a","i","l","s"," ","o","f"," ","a"," ","s","p","e","c",
            "i","f","i","c"," ","P","l","a","n","n","e","r"," ","t","a","s","k"," ","b","y"," ",
            "i","t","s"," ","t","a","s","k"," ","I","D",".">>,
            FALSE, {},
            FALSE, FALSE, FALSE),
    \* lines 442-481
    Shipped(<<"c","r","e","a","t","e","-","p","l","a","n","n","e","r","-","t","a","s","k">>,
            <<"C","r","e","a","t","e"," ","a"," ","P","l","a","n","n","e","r"," ","t","a","s","k",
            "."," ","U","s","e"," ","l","i","s","t","-","p","l","a","n","n","e","r","-","t","a",
            "s","k","s"," ","o","r"," ","g","e","t","-","p","l","a","n","n","e","r","-","p","l",
            "a","n"," ","t","o"," ","f","i","n","d"," ","t","h","e"," ","p","l","a","n","I","d",
            ".">>,
            TRUE, {<<"p","l","a","n","I","d">>, <<"t","i","t","l","e">>, <<"b","u","c","k","e","t","I",
            "d">>, <<"d","u","e","D","a","t","e">>, <<"a","s","s","i","g","n","e","d","T","o">>},
            TRUE, FALSE, FALSE),
    \* lines 483-503
    Shipped(<<"u","p","d","a","t","e","-","p","l","a","n","n","e","r","-","t","a","s","k">>,
            <<"U","p","d","a","t","e"," ","a"," ","P","l","a","n","n","e","r"," ","t","a","s","k",
            "."," ","O","n","l","y"," ","p","r","o","v","i","d","e"," ","t","h","e"," ","f","i",
            "e","l","d","s"," ","y","o","u"," ","w","a","n","t"," ","t","o"," ","c","h","a","n",
            "g","e",".">>,
            TRUE, {<<"t","i","t","l","e">>, <<"p","e","r","c","e","n","t","C","o","m","p","l","e","t",
            "e">>, <<"d","u","e","D","a","t","e">>, <<"p","r","i","o","r","i","t","y">>},
            TRUE, FALSE, FALSE),
    \* lines 505-513
    Shipped(<<"u","p","d","a","t","e","-","p","l","a","n","n","e","r","-","t","a","s","k","-","d","e","t","a","i","l","s">>,
            <<"U","p","d","a","t","e"," ","t","h","e"," ","d","e","s","c","r","i","p","t","i","o",
            "n"," ","o","f"," ","a"," ","P","l","a","n","n","e","r"," ","t","a","s","k",".">>,
            TRUE, {<<"d","e","s","c","r","i","p","t","i","o","n">>},
            TRUE, FALSE, FALSE),
    \* lines 521-530
    Shipped(<<"l","i","s","t","-","o","u","t","l","o","o","k","-","c","o","n","t","a","c","t","s">>,
            <<"L","i","s","t"," ","y","o","u","r"," ","O","u","t","l","o","o","k"," ","c","o","n",
            "t","a","c","t","s","."," ","C","a","n"," ","s","e","a","r","c","h"," ","b","y"," ",
            "n","a","m","e"," ","o","r"," ","e","m","a","i","l",".">>,
            TRUE, genericListSchema,
            FALSE, TRUE, FALSE),
    \* lines 532-534
    Shipped(<<"g","e","t","-","o","u","t","l","o","o","k","-","c","o","n","t","a","c","t">>,
            <<"G","e","t"," ","a"," ","s","p","e","c","i","f","i","c"," ","O","u","t","l","o","o",
            "k"," ","c","o","n","t","a","c","t"," ","b","y"," ","i","t","s"," ","c","o","n","t",
            "a","c","t","-","i","d",".">>,
            FALSE, {},
            FALSE, FALSE, FALSE),
    \* lines 538-556
    Shipped(<<"c","r","e","a","t","e","-","o","u","t","l","o","o","k","-","c","o","n","t","a","c","t">>,
            <<"C","r","e","a","t","e"," ","a","n"," ","O","u","t","l","o","o","k"," ","c","o","n",
            "t","a","c","t",".">>,
            TRUE, {<<"g","i","v","e","n","N","a","m","e">>, <<"s","u","r","n","a","m","e">>, <<"e","m",
            "a","i","l">>, <<"p","h","o","n","e">>, <<"c","o","m","p","a","n","y">>, <<"j","o",
            "b","T","i","t","l","e">>},
            TRUE, FALSE, FALSE),
    \* lines 558-576
    Shipped(<<"u","p","d","a","t","e","-","o","u","t","l","o","o","k","-","c","o","n","t","a","c","t">>,
            <<"U","p","d","a","t","e"," ","a","n"," ","O","u","t","l","o","o","k"," ","c","o","n",
            "t","a","c","t","."," ","O","n","l","y"," ","p","r","o","v","i","d","e"," ","t","h",
            "e"," ","f","i","e","l","d","s"," ","y","o","u"," ","w","a","n","t"," ","t","o"," ",
            "c","h","a","n","g","e",".">>,
            TRUE, {<<"g","i","v","e","n","N","a","m","e">>, <<"s","u","r","n","a","m","e">>, <<"e","m",
            "a","i","l">>, <<"p","h","o","n","e">>, <<"c","o","m","p","a","n","y">>, <<"j","o",
            "b","T","i","t","l","e">>},
            TRUE, FALSE, FALSE),
    \* lines 580-582
    Shipped(<<"d","e","l","e","t","e","-","o","u","t","l","o","o","k","-","c","o","n","t","a","c","t">>,
            <<"D","e","l","e","t","e"," ","a","n"," ","O","u","t","l","o","o","k"," ","c","o","n",
            "t","a","c","t","."," ","P","r","o","v","i","d","e"," ","t","h","e"," ","c","o","n",
            "t","a","c","t","-","i","d",".">>,
            FALSE, {},
            FALSE, FALSE, FALSE),
    \* lines 588-590
    Shipped(<<"g","e","t","-","c","u","r","r","e","n","t","-","u","s","e","r">>,
            <<"G","e","t"," ","y","o","u","r"," ","o","w","n"," ","p","r","o","f","i","l","e"," ",
            "i","n","f","o"," ","(","n","a","m","e",","," ","e","m","a","i","l",","," ","j","o",
            "b"," ","t","i","t","l","e",","," ","e","t","c",".",")",".">>,
            FALSE, {},
            FALSE, FALSE, FALSE),
    \* lines 592-601
    Shipped(<<"l","i","s","t","-","u","s","e","r","s">>,
            <<"L","i","s","t"," ","u","s","e","r","s"," ","i","n"," ","y","o","u","r"," ","o","r",
            "g","a","n","i","z","a","t","i","o","n","."," ","C","a","n"," ","s","e","a","r","c",
            "h"," ","b","y"," ","n","a","m","e"," ","o","r"," ","e","m","a","i","l",".">>,
            TRUE, genericListSchema,
            FALSE, TRUE, FALSE),
    \* lines 609-611
    Shipped(<<"l","i","s","t","-","j","o","i","n","e","d","-","t","e","a","m","s">>,
            <<"L","i","s","t"," ","a","l","l"," ","T","e","a","m","s"," ","y","o","u"," ","a","r",
            "e"," ","a"," ","m","e","m","b","e","r"," ","o","f","."," ","R","e","t","u","r","n",
            "s"," ","t","e","a","m"," ","n","a","m","e","s"," ","a","n","d"," ","I","D","s",".">>,
            FALSE, {},
            FALSE, FALSE, FALSE),
    \* lines 613-615
    Shipped(<<"g","e","t","-","t","e","a","m">>,
            <<"G","e","t"," ","d","e","t","a","i","l","s"," ","o","f"," ","a"," ","s","p","e","c",
            "i","f","i","c"," ","T","e","a","m"," ","b","y"," ","i","t","s"," ","t","e","a","m",
            "-","i","d",".">>,
            FALSE, {},
            FALSE, FALSE, FALSE),
    \* lines 617-619
    Shipped(<<"l","i","s","t","-","t","e","a","m","-","c","h","a","n","n","e","l","s">>,
            <<"L","i","s","t"," ","c","h","a","n","n","e","l","s"," ","i","n"," ","a"," ","T","e",
            "a","m","."," ","P","r","o","v","i","d","e"," ","t","h","e"," ","t","e","a","m","-",
            "i","d",".">>,
            FALSE, {},
            FALSE, FALSE, FALSE),
    \* lines 621-623
    Shipped(<<"g","e","t","-","t","e","a","m","-","c","h","a","n","n","e","l">>,
            <<"G","e","t"," ","d","e","t","a","i","l","s"," ","o","f"," ","a"," ","s","p","e","c",
            "i","f","i","c"," ","c","h","a","n","n","e","l","."," ","P","r","o","v","i","d","e",
            " ","t","e","a","m","-","i","d"," ","a","n","d"," ","c","h","a","n","n","e","l","-",
            "i","d",".">>,
            FALSE, {},
            FALSE, FALSE, FALSE),
    \* lines 625-627
    Shipped(<<"l","i","s","t","-","t","e","a","m","-","m","e","m","b","e","r","s">>,
            <<"L","i","s","t"," ","m","e","m","b","e","r","s"," ","o","f"," ","a"," ","T","e","a",
            "m","."," ","P","r","o","v","i","d","e"," ","t","h","e"," ","t","e","a","m","-","i",
            "d",".">>,
            FALSE, {},
            FALSE, FALSE, FALSE),
    \* lines 629-639
    Shipped(<<"l","i","s","t","-","c","h","a","n","n","e","l","-","m","e","s","s","a","g","e","s">>,
            <<"L","i","s","t"," ","m","e","s","s","a","g","e","s"," ","i","n"," ","a"," ","T","e",
            "a","m","s"," ","c","h","a","n","n","e","l","."," ","P","r","o","v","i","d","e"," ",
            "t","e","a","m","-","i","d"," ","a","n","d"," ","c","h","a","n","n","e","l","-","i",
            "d",".">>,
            TRUE, {<<"c","o","u","n","t">>},
            FALSE, TRUE, FALSE),
    \* lines 641-644
    Shipped(<<"g","e","t","-","c","h","a","n","n","e","l","-","m","e","s","s","a","g","e">>,
            <<"G","e","t"," ","a"," ","s","p","e","c","i","f","i","c"," ","m","e","s","s","a","g",
            "e"," ","f","r","o","m"," ","a"," ","T","e","a","m","s"," ","c","h","a","n","n","e",
            "l","."," ","P","r","o","v","i","d","e"," ","t","e","a","m","-","i","d",","," ","c",
            "h","a","n","n","e","l","-","i","d",","," ","a","n","d"," ","m","e","s","s","a","g",
            "e","-","i","d",".">>,
            FALSE, {},
            FALSE, FALSE, FALSE),
    \* lines 648-650
    Shipped(<<"l","i","s","t","-","c","h","a","t","s">>,
            <<"L","i","s","t"," ","y","o","u","r"," ","T","e","a","m","s"," ","c","h","a","t","s",
            " ","(","1",":","1",","," ","g","r","o","u","p"," ","c","h","a","t","s",","," ","m",
            "e","e","t","i","n","g"," ","c","h","a","t","s",")",".">>,
            FALSE, {},
            FALSE, FALSE, FALSE),
    \* lines 652-654
    Shipped(<<"g","e","t","-","c","h","a","t">>,
            <<"G","e","t"," ","d","e","t","a","i","l","s"," ","o","f"," ","a"," ","s","p","e","c",
            "i","f","i","c"," ","T","e","a","m","s"," ","c","h","a","t"," ","b","y"," ","i","t",
            "s"," ","c","h","a","t","-","i","d",".">>,
            FALSE, {},
            FALSE, FALSE, FALSE),
    \* lines 656-666
    Shipped(<<"l","i","s","t","-","c","h","a","t","-","m","e","s","s","a","g","e","s">>,
            <<"L","i","s","t"," ","m","e","s","s","a","g","e","s"," ","i","n"," ","a"," ","T","e",
            "a","m","s"," ","c","h","a","t","."," ","P","r","o","v","i","d","e"," ","t","h","e",
            " ","c","h","a","t","-","i","d",".">>,
            TRUE, {<<"c","o","u","n","t">>},
            FALSE, TRUE, FALSE),
    \* lines 668-670
    Shipped(<<"g","e","t","-","c","h","a","t","-","m","e","s","s","a","g","e">>,
            <<"G","e","t"," ","a"," ","s","p","e","c","i","f","i","c"," ","m","e","s","s","a","g",
            "e"," ","f","r","o","m"," ","a"," ","T","e","a","m","s"," ","c","h","a","t","."," ",
            "P","r","o","v","i","d","e"," ","c","h","a","t","-","i","d"," ","a","n","d"," ","m",
            "e","s","s","a","g","e","-","i","d",".">>,
            FALSE, {},
            FALSE, FALSE, FALSE),
    \* lines 672-675
    Shipped(<<"l","i","s","t","-","c","h","a","t","-","m","e","s","s","a","g","e","-","r","e","p","l","i","e","s">>,
            <<"L","i","s","t"," ","r","e","p","l","i","e","s"," ","t","o"," ","a"," ","s","p","e",
            "c","i","f","i","c"," ","T","e","a","m","s"," ","c","h","a","t"," ","m","e","s","s",
            "a","g","e","."," ","P","r","o","v","i","d","e"," ","c","h","a","t","-","i","d"," ",
            "a","n","d"," ","m","e","s","s","a","g","e","-","i","d",".">>,
            FALSE, {},
            FALSE, FALSE, FALSE),
    \* lines 679-687
    Shipped(<<"s","e","n","d","-","c","h","a","t","-","m","e","s","s","a","g","e">>,
            <<"S","e","n","d"," ","a"," ","m","e","s","s","a","g","e"," ","i","n"," ","a"," ","T",
            "e","a","m","s"," ","c","h","a","t",".">>,
            TRUE, {<<"c","o","n","t","e","n","t">>},
            TRUE, FALSE, FALSE),
    \* lines 689-697
    Shipped(<<"s","e","n","d","-","c","h","a","n","n","e","l","-","m","e","s","s","a","g","e">>,
            <<"S","e","n","d"," ","a"," ","m","e","s","s","a","g","e"," ","t","o"," ","a"," ","T",
            "e","a","m","s"," ","c","h","a","n","n","e","l",".">>,
            TRUE, {<<"c","o","n","t","e","n","t">>},
            TRUE, FALSE, FALSE),
    \* lines 699-707
    Shipped(<<"r","e","p","l","y","-","t","o","-","c","h","a","t","-","m","e","s","s","a","g","e">>,
            <<"R","e","p","l","y"," ","t","o"," ","a"," ","m","e","s","s","a","g","e"," ","i","n",
            " ","a"," ","T","e","a","m","s"," ","c","h","a","t",".">>,
            TRUE, {<<"c","o","n","t","e","n","t">>},
            TRUE, FALSE, FALSE),
    \* lines 715-717
    Shipped(<<"l","i","s","t","-","d","r","i","v","e","s">>,
            <<"L","i","s","t"," ","y","o","u","r"," ","O","n","e","D","r","i","v","e"," ","d","r",
            "i","v","e","s","."," ","R","e","t","u","r","n","s"," ","d","r","i","v","e"," ","n",
            "a","m","e","s"," ","a","n","d"," ","I","D","s",".">>,
            FALSE, {},
            FALSE, FALSE, FALSE),
    \* lines 719-721
    Shipped(<<"g","e","t","-","d","r","i","v","e","-","r","o","o","t","-","i","t","e","m">>,
            <<"G","e","t"," ","t","h","e"," ","r","o","o","t"," ","i","t","e","m"," ","o","f"," ",
            "a"," ","O","n","e","D","r","i","v","e"," ","d","r","i","v","e","."," ","P","r","o",
            "v","i","d","e"," ","t","h","e"," ","d","r","i","v","e","-","i","d",".">>,
            FALSE, {},
            FALSE, FALSE, FALSE),
    \* lines 724-727
    Shipped(<<"l","i","s","t","-","f","o","l","d","e","r","-","f","i","l","e","s">>,
            <<"L","i","s","t"," ","f","i","l","e","s"," ","a","n","d"," ","f","o","l","d","e","r",
            "s"," ","i","n","s","i","d","e"," ","a"," ","O","n","e","D","r","i","v","e"," ","f",
            "o","l","d","e","r","."," ","P","r","o","v","i","d","e"," ","d","r","i","v","e","-",
            "i","d"," ","a","n","d"," ","f","o","l","d","e","r"," ","i","t","e","m","-","i","d",
            ".">>,
            FALSE, {},
            FALSE, FALSE, FALSE),
    \* lines 729-732
    Shipped(<<"d","o","w","n","l","o","a","d","-","o","n","e","d","r","i","v","e","-","f","i","l","e","-","c","o","n","t","e","n","t">>,
            <<"D","o","w","n","l","o","a","d"," ","f","i","l","e"," ","c","o","n","t","e","n","t",
            " ","f","r","o","m"," ","O","n","e","D","r","i","v","e","."," ","P","r","o","v","i",
            "d","e"," ","d","r","i","v","e","-","i","d",","," ","p","a","r","e","n","t"," ","f",
            "o","l","d","e","r"," ","i","t","e","m","-","i","d",","," ","a","n","d"," ","f","i",
            "l","e"," ","i","t","e","m","-","i","d",".">>,
            FALSE, {},
            FALSE, FALSE, FALSE),
    \* lines 736-742
    Shipped(<<"u","p","l","o","a","d","-","f","i","l","e","-","c","o","n","t","e","n","t">>,
            <<"U","p","l","o","a","d"," ","o","r"," ","r","e","p","l","a","c","e"," ","f","i","l",
            "e"," ","c","o","n","t","e","n","t"," ","i","n"," ","O","n","e","D","r","i","v","e",
            ".">>,
            TRUE, {<<"c","o","n","t","e","n","t">>},
            TRUE, FALSE, FALSE),
    \* lines 746-748
    Shipped(<<"d","e","l","e","t","e","-","o","n","e","d","r","i","v","e","-","f","i","l","e">>,
            <<"D","e","l","e","t","e"," ","a"," ","f","i","l","e"," ","o","r"," ","f","o","l","d",
            "e","r"," ","f","r","o","m"," ","O","n","e","D","r","i","v","e","."," ","P","r","o",
            "v","i","d","e"," ","d","r","i","v","e","-","i","d"," ","a","n","d"," ","i","t","e",
            "m","-","i","d",".">>,
            FALSE, {},
            FALSE, FALSE, FALSE),
    \* lines 756-759
    Shipped(<<"l","i","s","t","-","e","x","c","e","l","-","w","o","r","k","s","h","e","e","t","s">>,
            <<"L","i","s","t"," ","w","o","r","k","s","h","e","e","t","s"," ","i","n"," ","a","n",
            " ","E","x","c","e","l"," ","w","o","r","k","b","o","o","k","."," ","P","r","o","v",
            "i","d","e"," ","d","r","i","v","e","-","i","d"," ","a","n","d"," ","w","o","r","k",
            "b","o","o","k"," ","i","t","e","m","-","i","d",".">>,
            FALSE, {},
            FALSE, FALSE, FALSE),
    \* lines 761-764
    Shipped(<<"g","e","t","-","e","x","c","e","l","-","r","a","n","g","e">>,
            <<"G","e","t"," ","v","a","l","u","e","s"," ","f","r","o","m"," ","a"," ","r","a","n",
            "g","e"," ","o","f"," ","c","e","l","l","s"," ","i","n"," ","a","n"," ","E","x","c",
            "e","l"," ","w","o","r","k","s","h","e","e","t","."," ","P","r","o","v","i","d","e",
            " ","d","r","i","v","e","-","i","d",","," ","w","o","r","k","b","o","o","k"," ","i",
            "t","e","m","-","i","d",","," ","w","o","r","k","s","h","e","e","t","-","i","d",",",
            " ","a","n","d"," ","c","e","l","l"," ","r","a","n","g","e"," ","a","d","d","r","e",
            "s","s",".">>,
            FALSE, {},
            FALSE, FALSE, FALSE),
    \* lines 768-787
    Shipped(<<"c","r","e","a","t","e","-","e","x","c","e","l","-","c","h","a","r","t">>,
            <<"C","r","e","a","t","e"," ","a"," ","c","h","a","r","t"," ","i","n"," ","a","n"," ",
            "E","x","c","e","l"," ","w","o","r","k","s","h","e","e","t",".">>,
            TRUE, {<<"t","y","p","e">>, <<"s","o","u","r","c","e","D","a","t","a">>, <<"s","e","r","i",
            "e","s","B","y">>},
            TRUE, FALSE, FALSE),
    \* lines 789-820
    Shipped(<<"f","o","r","m","a","t","-","e","x","c","e","l","-","r","a","n","g","e">>,
            <<"F","o","r","m","a","t"," ","c","e","l","l","s"," ","i","n"," ","a","n"," ","E","x",
            "c","e","l"," ","w","o","r","k","s","h","e","e","t",".">>,
            TRUE, {<<"b","o","l","d">>, <<"i","t","a","l","i","c">>, <<"f","o","n","t","S","i","z",
            "e">>, <<"f","o","n","t","C","o","l","o","r">>, <<"f","i","l","l","C","o","l","o",
            "r">>, <<"n","u","m","b","e","r","F","o","r","m","a","t">>},
            TRUE, FALSE, FALSE),
    \* lines 822-836
    Shipped(<<"s","o","r","t","-","e","x","c","e","l","-","r","a","n","g","e">>,
            <<"S","o","r","t"," ","a"," ","r","a","n","g","e"," ","o","f"," ","c","e","l","l","s",
            " ","i","n"," ","a","n"," ","E","x","c","e","l"," ","w","o","r","k","s","h","e","e",
            "t",".">>,
            TRUE, {<<"c","o","l","u","m","n","I","n","d","e","x">>, <<"a","s","c","e","n","d","i","n",
            "g">>, <<"h","a","s","H","e","a","d","e","r","s">>},
            TRUE, FALSE, FALSE),
    \* lines 844-846
    Shipped(<<"l","i","s","t","-","o","n","e","n","o","t","e","-","n","o","t","e","b","o","o","k","s">>,
            <<"L","i","s","t"," ","y","o","u","r"," ","O","n","e","N","o","t","e"," ","n","o","t",
            "e","b","o","o","k","s","."," ","R","e","t","u","r","n","s"," ","n","o","t","e","b",
            "o","o","k"," ","n","a","m","e","s"," ","a","n","d"," ","I","D","s",".">>,
            FALSE, {},
            FALSE, FALSE, FALSE),
    \* lines 848-851
    Shipped(<<"l","i","s","t","-","o","n","e","n","o","t","e","-","n","o","t","e","b","o","o","k","-","s","e","c","t","i","o","n","s">>,
            <<"L","i","s","t"," ","s","e","c","t","i","o","n","s"," ","i","n"," ","a"," ","O","n",
            "e","N","o","t","e"," ","n","o","t","e","b","o","o","k","."," ","P","r","o","v","i",
            "d","e"," ","t","h","e"," ","n","o","t","e","b","o","o","k","-","i","d",".">>,
            FALSE, {},
            FALSE, FALSE, FALSE),
    \* lines 853-856
    Shipped(<<"l","i","s","t","-","o","n","e","n","o","t","e","-","s","e","c","t","i","o","n","-","p","a","g","e","s">>,
            <<"L","i","s","t"," ","p","a","g","e","s"," ","i","n"," ","a"," ","O","n","e","N","o",
            "t","e"," ","s","e","c","t","i","o","n","."," ","P","r","o","v","i","d","e"," ","t",
            "h","e"," ","s","e","c","t","i","o","n","-","i","d",".">>,
            FALSE, {},
            FALSE, FALSE, FALSE),
    \* lines 858-861
    Shipped(<<"g","e","t","-","o","n","e","n","o","t","e","-","p","a","g","e","-","c","o","n","t","e","n","t">>,
            <<"G","e","t"," ","t","h","e"," ","H","T","M","L"," ","c","o","n","t","e","n","t"," ",
            "o","f"," ","a"," ","O","n","e","N","o","t","e"," ","p","a","g","e","."," ","P","r",
            "o","v","i","d","e"," ","t","h","e"," ","p","a","g","e","-","i","d",".">>,
            FALSE, {},
            FALSE, FALSE, FALSE),
    \* lines 865-875
    Shipped(<<"c","r","e","a","t","e","-","o","n","e","n","o","t","e","-","p","a","g","e">>,
            <<"C","r","e","a","t","e"," ","a"," ","O","n","e","N","o","t","e"," ","p","a","g","e",
            " ","w","i","t","h"," ","a"," ","t","i","t","l","e"," ","a","n","d"," ","c","o","n",
            "t","e","n","t",".">>,
            TRUE, {<<"t","i","t","l","e">>, <<"c","o","n","t","e","n","t">>},
            TRUE, FALSE, FALSE),
    \* lines 881-889
    Shipped(<<"s","e","a","r","c","h","-","s","h","a","r","e","p","o","i","n","t","-","s","i","t","e","s">>,
            <<"S","e","a","r","c","h"," ","f","o","r"," ","S","h","a","r","e","P","o","i","n","t",
            " ","s","i","t","e","s"," ","b","y"," ","n","a","m","e"," ","o","r"," ","k","e","y",
            "w","o","r","d",".">>,
            TRUE, {<<"s","e","a","r","c","h">>},
            FALSE, TRUE, FALSE),
    \* lines 891-893
    Shipped(<<"g","e","t","-","s","h","a","r","e","p","o","i","n","t","-","s","i","t","e">>,
            <<"G","e","t"," ","d","e","t","a","i","l","s"," ","o","f"," ","a"," ","s","p","e","c",
            "i","f","i","c"," ","S","h","a","r","e","P","o","i","n","t"," ","s","i","t","e",".",
            " ","P","r","o","v","i","d","e"," ","t","h","e"," ","s","i","t","e","-","i","d",".">>,
            FALSE, {},
            FALSE, FALSE, FALSE),
    \* lines 895-898
    Shipped(<<"l","i","s","t","-","s","h","a","r","e","p","o","i","n","t","-","s","i","t","e","-","d","r","i","v","e","s">>,
            <<"L","i","s","t"," ","d","o","c","u","m","e","n","t"," ","l","i","b","r","a","r","i",
            "e","s"," ","(","d","r","i","v","e","s",")"," ","i","n"," ","a"," ","S","h","a","r",
            "e","P","o","i","n","t"," ","s","i","t","e","."," ","P","r","o","v","i","d","e"," ",
            "t","h","e"," ","s","i","t","e","-","i","d",".">>,
            FALSE, {},
            FALSE, FALSE, FALSE),
    \* lines 900-903
    Shipped(<<"g","e","t","-","s","h","a","r","e","p","o","i","n","t","-","s","i","t","e","-","d","r","i","v","e","-","b","y","-","i","d">>,
            <<"G","e","t"," ","a"," ","s","p","e","c","i","f","i","c"," ","d","o","c","u","m","e",
            "n","t"," ","l","i","b","r","a","r","y"," ","i","n"," ","a"," ","S","h","a","r","e",
            "P","o","i","n","t"," ","s","i","t","e","."," ","P","r","o","v","i","d","e"," ","s",
            "i","t","e","-","i","d"," ","a","n","d"," ","d","r","i","v","e","-","i","d",".">>,
            FALSE, {},
            FALSE, FALSE, FALSE),
    \* lines 905-907
    Shipped(<<"l","i","s","t","-","s","h","a","r","e","p","o","i","n","t","-","s","i","t","e","-","i","t","e","m","s">>,
            <<"L","i","s","t"," ","i","t","e","m","s"," ","i","n"," ","a"," ","S","h","a","r","e",
            "P","o","i","n","t"," ","s","i","t","e","."," ","P","r","o","v","i","d","e"," ","t",
            "h","e"," ","s","i","t","e","-","i","d",".">>,
            FALSE, {},
            FALSE, FALSE, FALSE),
    \* lines 909-912
    Shipped(<<"g","e","t","-","s","h","a","r","e","p","o","i","n","t","-","s","i","t","e","-","i","t","e","m">>,
            <<"G","e","t"," ","a"," ","s","p","e","c","i","f","i","c"," ","i","t","e","m"," ","f",
            "r","o","m"," ","a"," ","S","h","a","r","e","P","o","i","n","t"," ","s","i","t","e",
            "."," ","P","r","o","v","i","d","e"," ","s","i","t","e","-","i","d"," ","a","n","d",
            " ","i","t","e","m","-","i","d",".">>,
            FALSE, {},
            FALSE, FALSE, FALSE),
    \* lines 914-916
    Shipped(<<"l","i","s","t","-","s","h","a","r","e","p","o","i","n","t","-","s","i","t","e","-","l","i","s","t","s">>,
            <<"L","i","s","t"," ","a","l","l"," ","l","i","s","t","s"," ","i","n"," ","a"," ","S",
            "h","a","r","e","P","o","i","n","t"," ","s","i","t","e","."," ","P","r","o","v","i",
            "d","e"," ","t","h","e"," ","s","i","t","e","-","i","d",".">>,
            FALSE, {},
            FALSE, FALSE, FALSE),
    \* lines 918-921
    Shipped(<<"g","e","t","-","s","h","a","r","e","p","o","i","n","t","-","s","i","t","e","-","l","i","s","t">>,
            <<"G","e","t"," ","a"," ","s","p","e","c","i","f","i","c"," ","l","i","s","t"," ","f",
            "r","o","m"," ","a"," ","S","h","a","r","e","P","o","i","n","t"," ","s","i","t","e",
            "."," ","P","r","o","v","i","d","e"," ","s","i","t","e","-","i","d"," ","a","n","d",
            " ","l","i","s","t","-","i","d",".">>,
            FALSE, {},
            FALSE, FALSE, FALSE),
    \* lines 923-932
    Shipped(<<"l","i","s","t","-","s","h","a","r","e","p","o","i","n","t","-","s","i","t","e","-","l","i","s","t","-","i","t","e","m","s">>,
            <<"L","i","s","t"," ","i","t","e","m","s"," ","i","n"," ","a"," ","S","h","a","r","e",
            "P","o","i","n","t"," ","l","i","s","t","."," ","P","r","o","v","i","d","e"," ","s",
            "i","t","e","-","i","d"," ","a","n","d"," ","l","i","s","t","-","i","d",".">>,
            TRUE, genericListSchema,
            FALSE, TRUE, FALSE),
    \* lines 934-937
    Shipped(<<"g","e","t","-","s","h","a","r","e","p","o","i","n","t","-","s","i","t","e","-","l","i","s","t","-","i","t","e","m">>,
            <<"G","e","t"," ","a"," ","s","p","e","c","i","f","i","c"," ","i","t","e","m"," ","f",
            "r","o","m"," ","a"," ","S","h","a","r","e","P","o","i","n","t"," ","l","i","s","t",
            "."," ","P","r","o","v","i","d","e"," ","s","i","t","e","-","i","d",","," ","l","i",
            "s","t","-","i","d",","," ","a","n","d"," ","i","t","e","m","-","i","d",".">>,
            FALSE, {},
            FALSE, FALSE, FALSE),
    \* lines 939-942
    Shipped(<<"g","e","t","-","s","h","a","r","e","p","o","i","n","t","-","s","i","t","e","-","b","y","-","p","a","t","h">>,
            <<"G","e","t"," ","a"," ","S","h","a","r","e","P","o","i","n","t"," ","s","i","t","e",
            " ","b","y"," ","i","t","s"," ","U","R","L"," ","p","a","t","h",","," ","e",".","g",
            "."," ","\"","/","s","i","t","e","s","/","m","a","r","k","e","t","i","n","g","\"",
            ".">>,
            FALSE, {},
            FALSE, FALSE, FALSE),
    \* lines 944-946
    Shipped(<<"g","e","t","-","s","h","a","r","e","p","o","i","n","t","-","s","i","t","e","s","-","d","e","l","t","a">>,
            <<"G","e","t"," ","r","e","c","e","n","t","l","y"," ","c","h","a","n","g","e","d"," ",
            "S","h","a","r","e","P","o","i","n","t"," ","s","i","t","e","s"," ","(","d","e","l",
            "t","a"," ","q","u","e","r","y",")",".">>,
            FALSE, {},
            FALSE, FALSE, FALSE),
    \* lines 952-978
    Shipped(<<"s","e","a","r","c","h","-","q","u","e","r","y">>,
            <<"S","e","a","r","c","h"," ","a","c","r","o","s","s"," ","M","i","c","r","o","s","o",
            "f","t"," ","3","6","5",":"," ","e","m","a","i","l","s",","," ","c","a","l","e","n",
            "d","a","r",","," ","f","i","l","e","s",","," ","S","h","a","r","e","P","o","i","n",
            "t",","," ","T","e","a","m","s","."," ","P","r","o","v","i","d","e"," ","a"," ","q",
            "u","e","r","y"," ","a","n","d"," ","w","h","a","t"," ","t","o"," ","s","e","a","r",
            "c","h",".">>,
            TRUE, {<<"q","u","e","r","y">>, <<"e","n","t","i","t","y","T","y","p","e","s">>, <<"s","i",
            "z","e">>},
            TRUE, FALSE, FALSE)
>>

\* the Map after the first n set calls
RECURSIVE MapAfter(_, _)
MapAfter(sets, n) ==
    IF n = 0 THEN <<>>
    ELSE SetKey(MapAfter(sets, n - 1), sets[n].key, sets[n].value)

\* a table whose send-mail record came without a schema
ShippedTableSchemaless ==
    LET m == MapAfter(ShippedSets, Len(ShippedSets))
    IN  SetKey(m, SendMailTool.alias,
               [ValueOf(m, SendMailTool.alias) EXCEPT !.hasSchema = FALSE,
                                                      !.schemaKeys = {}])

\* toolSchemaOverrides as exported
ShippedTable == MapAfter(ShippedSets, Len(ShippedSets))

\* an endpoint of the generated client under a tool name: Body parameters
\* (one of them named body), Query parameters (one of them named as a key
\* of genericListSchema) and a Header parameter
ShippedEndpoint(alias, method) ==
    Endpoint(alias, method, <<"/","m","e","/","x">>,
             <<Param(dName, "Body"), Param(bodyName, "Body"), Param(qName, "Query"),
               Param(countName, "Query"), Param(hName, "Header")>>)

\* registerGraphTools is entered with the shipped table and a catalog of an
\* endpoint under a shipped name and one without a record
ShippedStarts ==
    {[pc |-> "start",
      endpoints |-> <<ShippedEndpoint(name, method), BraceTool>>,
      endpointsData |-> <<[toolName |-> name, scopes |-> TRUE, workScopes |-> FALSE],
                          [toolName |-> BraceTool.alias, scopes |-> TRUE,
                           workScopes |-> FALSE]>>,
      toolSchemaOverrides |-> ShippedTable,
      readOnly |-> ro, orgMode |-> FALSE, enabledToolsPattern |-> pat,
      enabledToolsRegex |-> NoRegex,
      i |-> 1, registered |-> <<>>, skipped |-> <<>>] :
        name \in Keys(ShippedTable),
        method \in {<<"g","e","t">>, <<"p","o","s","t">>},
        ro \in BOOLEAN,
        pat \in {NoPattern, Pattern(<<"l","i","s","t">>)}}

InitShipped ==
    /\ reg \in ShippedStarts
    /\ tool = BareTool
    /\ override = NoOverride
    /\ params = <<>>
    /\ graphClient = [kind |-> "brief"]
    /\ calls = <<>>
    /\ replies = <<>>
    /\ h = IdleHandler
    /\ peer = NoPeer
    /\ fnResult = NoOutput

SpecShipped == InitShipped /\ [][NextRegister]_vars

\* the records of the table that have one of the three functions
HasFunction(o) ==
    \/ o.transform.kind # "absent"
    \/ o.queryTransform.kind # "absent"
    \/ o.pathTransform.kind # "absent"

DeclaredOfType(t, type) ==
    {t.parameters[i].name :
        i \in {k \in DOMAIN t.parameters : t.parameters[k].type = type}}

\* the names the functions of o own for endpoint t
OwnedNames(t, o) ==
    (IF o.transform.kind # "absent"
     THEN DeclaredOfType(t, "Body") \cup {bodyName} ELSE {})
    \cup (IF o.queryTransform.kind # "absent" THEN DeclaredOfType(t, "Query") ELSE {})

\* the removal was carried out for registered tool j: an owned name is a key
\* of the tool's schema only as a key the override's schema put there
RemovalDone(j) ==
    \A name \in OwnedNames(EndpointOf(j), OverrideOf(j)) :
        name \in Keys(reg.registered[j].paramSchema) =>
            /\ name \in OverrideOf(j).schemaKeys
            /\ ValueOf(reg.registered[j].paramSchema, name) = "override"

(* C19: in the shipped override table every record that has a body, query   *)
(* or path transform has a schema, every record has a description longer    *)
(* than 10 characters and a schema of at most 8 parameters; hence for every *)
(* tool registered under a shipped record the removal of the parameters the *)
(* record's transforms own is carried out.                                  *)
C19_ShippedTableWellFormed ==
    /\ \A i \in DOMAIN reg.toolSchemaOverrides :
          LET o == reg.toolSchemaOverrides[i].value
          IN  /\ HasFunction(o) => o.hasSchema
              /\ Len(o.description) > 10
              /\ Cardinality(o.schemaKeys) <= 8
    /\ \A j \in DOMAIN reg.registered :
          OverrideOf(j).present => RemovalDone(j)

C19_Witness ==
    /\ Registered
    /\ Len(reg.toolSchemaOverrides) = 82
    /\ \E j \in DOMAIN reg.registered :
          /\ reg.registered[j].alias = SendMailTool.alias
          /\ OverrideOf(j).transform.kind = "function"
          /\ Keys(reg.registered[j].paramSchema) =
                OverrideOf(j).schemaKeys \cup {qName, countName, hName}

(* Pagination entry *)

\* the three conditions under which the claim lets pagination start
ValueArrayOnFirstPage ==
    /\ FetchAllPages(params)
    /\ ParsedPage(replies[1])
    /\ TextOf(replies[1]).doc.hasValue

(* C20: when the primary request returned and it is not the case that       *)
(* fetchAllPages is true, the first response is content-bearing and its     *)
(* first text parses as JSON with a value array, no follow-up request is    *)
(* issued and the first text of the result is the text the transport        *)
(* returned.                                                                *)
C20_PaginationOnlyWithValueArray ==
    (replies # <<>> /\ replies[1].kind = "returns" /\ ~ValueArrayOnFirstPage)
        => /\ Len(calls) = 1
           /\ (Done /\ ContentBearing(replies[1].response))
                 => /\ Returned
                    /\ h.result.content[1].text = TextOf(replies[1])

---------------------------------------------------------------------------
(* Pagination: a follow-up response without content *)

\* pages 1..k were fetched and parsed, each with a cursor, and the response to
\* the request for page k+1 was not content-bearing
EmptyPageAfter(k) ==
    /\ Done
    /\ FetchAllPages(params)
    /\ k >= 1
    /\ Len(replies) = k + 1
    /\ \A j \in 1..k : ParsedPage(replies[j])
    /\ \A j \in 1..k : TextOf(replies[j]).doc.nextLink.kind = "url"
    /\ replies[k + 1].kind = "returns"
    /\ ~ContentBearing(replies[k + 1].response)

(* C21: with fetchAllPages = true, if the response to a follow-up request   *)
(* is not content-bearing (absent, without a content list, or with an empty *)
(* one), no further request is issued and the result is the completed       *)
(* merge and not an error item (its error flag is the first response's      *)
(* own): its value is the concatenation of the items of the pages received  *)
(* before it and its cursor field is removed.                               *)
C21_EmptyPageKeepsAccumulated ==
    \A k \in 1..(MaxChain + 1) :
        EmptyPageAfter(k) =>
            /\ Len(calls) = k + 1
            /\ IsMergedResult
            /\ ~IsSomeErrorItem
            /\ h.result.isError = replies[1].response.isError
            /\ h.result.content[1].text.doc.hasValue
            /\ h.result.content[1].text.doc.value = ConcatValues(k)
            /\ h.result.content[1].text.doc.nextLink = NoLink

C21_Witness ==
    /\ EmptyPageAfter(2)
    /\ replies[3].response.shape = "undefined"
    /\ h.result.isError = "undefined"
    /\ Len(TextOf(replies[1]).doc.value) = MaxItems
    /\ Len(TextOf(replies[2]).doc.value) = MaxItems
    /\ Len(h.result.content[1].text.doc.value) = 2 * MaxItems

---------------------------------------------------------------------------
(* Pagination: the item-count field *)

\* the handler returned the completed merge of an invocation that paginated
MergeCompleted ==
    /\ Done
    /\ FetchAllPages(params)
    /\ h.merged
    /\ IsMergedResult

(* C22: after a completed pagination merge, if the first page carried an    *)
(* item-count field, whatever its value (0 included), the returned          *)
(* document's item-count field equals the number of items of its value      *)
(* array; if the first page carried none, the returned document has none.   *)
C22_CountMatchesTotal ==
    MergeCompleted =>
        LET first == TextOf(replies[1]).doc
            merged == h.result.content[1].text.doc
        IN  /\ merged.hasCount = first.hasCount
            /\ first.hasCount => merged.count = Len(merged.value)

---------------------------------------------------------------------------
(* Pagination: termination *)

\* the loop was left by the break at the page cap
CapReached ==
    /\ Done
    /\ FetchAllPages(params)
    /\ Len(replies) = MaxPages + 1
    /\ \A k \in DOMAIN replies :
          ParsedPage(replies[k]) /\ TextOf(replies[k]).doc.nextLink.kind = "url"

(* C23: when every transport call returns or throws, an invocation with     *)
(* fetchAllPages = true eventually returns a result, also against a         *)
(* transport whose every page carries the same cursor; the follow-up        *)
(* requests of one invocation never number more than the page cap, and at   *)
(* the cap the result is the merge of what was accumulated, not an error.   *)
C23_PaginationTerminates ==
    /\ FetchAllPages(params) => <>(Done /\ Returned)
    /\ [](FetchAllPages(params) => Len(calls) - 1 <= MaxPages)
    /\ [](CapReached =>
            /\ IsMergedResult
            /\ ~IsSomeErrorItem
            /\ h.result.content[1].text.doc.value = ConcatValues(Len(replies)))

C23_Witness ==
    /\ CapReached
    /\ EndlessPaging
    /\ Len(calls) - 1 = MaxPages
    /\ Len(h.result.content[1].text.doc.value) = MaxPages + 1

---------------------------------------------------------------------------
(* Pagination: order of the requests *)

\* request k + 1 is the follow-up request the cursor of page k asks for
AddressedByCursorOf(k) ==
    /\ ParsedPage(replies[k])
    /\ TextOf(replies[k]).doc.nextLink.kind = "url"
    /\ calls[k + 1].path = Replace(TextOf(replies[k]).doc.nextLink.pathname, PrefixV1, <<>>)
    /\ Keys(calls[k + 1].options.queryParams) = Keys(TextOf(replies[k]).doc.nextLink.search)
    /\ \A key \in Keys(calls[k + 1].options.queryParams) :
          ValueOf(calls[k + 1].options.queryParams, key)
              = ValueOf(TextOf(replies[k]).doc.nextLink.search, key)

(* C24: within one invocation at most one transport request is in flight,  *)
(* the request for page k+1 is issued only when the response for page k has *)
(* been received, and it is addressed by the cursor of that response.       *)
C24_PagesFetchedSequentially ==
    /\ Len(calls) - Len(replies) \in {0, 1}
    /\ \A k \in 1..(Len(calls) - 1) :
          /\ k <= Len(replies)
          /\ AddressedByCursorOf(k)

C24_Witness ==
    /\ Done
    /\ graphClient.kind = "pages"
    /\ Len(calls) = 3
    /\ calls[2].options.queryParams = <<[key |-> SkipName, value |-> <<"1">>]>>
    /\ calls[3].options.queryParams = <<[key |-> SkipName, value |-> <<"2">>]>>

---------------------------------------------------------------------------
(* Request construction under an override record *)

\* the override record has none of the three functions
NoFunctions(o) ==
    /\ o.transform.kind = "absent"
    /\ o.queryTransform.kind = "absent"
    /\ o.pathTransform.kind = "absent"

\* the last supplied value of a declared parameter of class type
SuppliedOfType(type) ==
    {i \in DOMAIN params :
        /\ FindParamDef(tool, params[i].name).type = type
        /\ params[i].name # fetchAllPagesName}

(* C25: for a tool whose override record has no body, query or path         *)
(* transform, the request handed to the transport (path with its query,     *)
(* headers, method, body) is the one built for the same endpoint and call   *)
(* parameters without an override record; in particular a supplied         *)
(* Body-classed declared parameter is the request body.                     *)
C25_NoTransformIsMechanical ==
    (RequestBuilt /\ override.present /\ NoFunctions(override)) =>
        /\ calls[1].path = BuildRequest(tool, NoOverride, params).path
        /\ calls[1].options = BuildRequest(tool, NoOverride, params).options
        /\ SuppliedOfType("Body") # {} =>
              \E i \in SuppliedOfType("Body") : h.request.routed.body = params[i].value

\* the call supplies only names the tool's schema offers
ValidatedCall == Supplied \subseteq Keys(ParamSchema(tool, override))

QueryKeyOf(i) ==
    IF InRestorationSet(params[i].name) THEN Restored(params[i].name) ELSE params[i].name

\* the query mapping is the transform's output with the supplied Query
\* parameters of rows routed on top of it
RoutedOnTopOfTransform(rows) ==
    LET out == override.queryTransform.out
        q == h.request.routed.queryParams
    IN  /\ Keys(q) = Keys(out) \cup {QueryKeyOf(i) : i \in rows}
        /\ \A key \in Keys(out) \ {QueryKeyOf(i) : i \in rows} :
              ValueOf(q, key) = ValueOf(out, key)
        /\ \A i \in rows :
              ValueOf(q, QueryKeyOf(i)) \in
                  {TemplateString(params[j].value) :
                      j \in {k \in rows : QueryKeyOf(k) = QueryKeyOf(i)}}

BodyOrQueryTransformOnly ==
    /\ override.present
    /\ override.transform.kind = "returns" \/ override.queryTransform.kind = "returns"
    /\ override.pathTransform.kind = "absent"

\* supplied Path parameter i was substituted into the path (the endpoints in
\* question name each placeholder once)
Substituted(i) ==
    /\ ~Includes(h.request.routed.path, BracePattern(params[i].name))
    /\ ~Includes(h.request.routed.path, ColonPattern(params[i].name))
    /\ Includes(calls[1].path, encodeURIComponent(TemplateString(params[i].value)))

\* supplied Header parameter i was set as a header
SetAsHeader(i) ==
    /\ QueryKeyOf(i) \in Keys(h.request.routed.headers)
    /\ ValueOf(h.request.routed.headers, QueryKeyOf(i)) = TemplateString(params[i].value)
    /\ ValueOf(calls[1].options.headers, QueryKeyOf(i)) = TemplateString(params[i].value)

\* name is a key of the override's schema
OwnedBySchema(name) ==
    override.present /\ override.hasSchema /\ name \in override.schemaKeys

C27_WitnessRouted ==
    /\ RequestBuilt
    /\ BodyOrQueryTransformOnly
    /\ tool = PostTool
    /\ override.schemaKeys = {topName, qName}
    /\ override.transform.kind = "returns"
    /\ Supplied = {hName, qName}
    /\ Keys(h.request.routed.headers) = {hName}
    /\ h.request.routed.queryParams = <<>>

---------------------------------------------------------------------------
(* The options of the request *)

\* how options.body carries the body value b, when it carries one
CarriedAsIs(o, b) ==
    /\ o.body.of = b
    /\ o.body.enc = (IF b.t = "str" THEN "raw" ELSE "json")

(* C28 as stated: the request handed to the transport has its method        *)
(* uppercased and carries a body if and only if the method is not GET and a *)
(* body value exists (from the body transform or the routing); a GET        *)
(* request carries none, a textual body value is passed unchanged, any      *)
(* other is JSON-encoded.                                                   *)
C28_BodyIffValueExists ==
    RequestBuilt =>
        LET o == calls[1].options
            b == h.request.routed.body
        IN  /\ o.method = toUpperCase(tool.method)
            /\ (o.body # NoBody) <=> (o.method # GETChars /\ b # Null)
            /\ o.body # NoBody => CarriedAsIs(o, b)

(* C28, amended: the same with "a body value exists" read as the value      *)
(* being truthy: a body value that is the empty text (like null) gives a    *)
(* request without a body.                                                  *)
C28_BodyIffValueTruthy ==
    RequestBuilt =>
        LET o == calls[1].options
            b == h.request.routed.body
        IN  /\ o.method = toUpperCase(tool.method)
            /\ (o.body # NoBody) <=> (o.method # GETChars /\ b # Null /\ b # Str(<<>>))
            /\ o.method = GETChars => o.body = NoBody
            /\ o.body # NoBody => CarriedAsIs(o, b)

C28_Witness ==
    /\ RequestBuilt
    /\ tool = BareTool
    /\ ~override.present
    /\ params = <<[name |-> bodyName, value |-> Str(<<>>)]>>
    /\ h.request.routed.body = Str(<<>>)
    /\ calls[1].options.method = <<"P","O","S","T">>
    /\ calls[1].options.body = NoBody

C28_WitnessEncoded ==
    /\ RequestBuilt
    /\ tool = PostTool
    /\ h.request.routed.body.t = "obj"
    /\ calls[1].options.body.enc = "json"

---------------------------------------------------------------------------
(* The result of the handler *)

\* the primary request returned a content-bearing result and no call threw
ContentReturned ==
    /\ Done
    /\ replies # <<>>
    /\ \A k \in DOMAIN replies : replies[k].kind = "returns"
    /\ ContentBearing(replies[1].response)

(* C29: when the transport returns a content-bearing result and nothing     *)
(* throws, the handler's result has as many content items, in the same      *)
(* order, each of type text with the transport item's text, except that the *)
(* first text is the merged document after a completed pagination merge;    *)
(* the metadata and the error flag are the transport's, so a result flagged *)
(* isError stays flagged and keeps its content.                             *)
C29_ResultCarriesTransportResult ==
    ContentReturned =>
        /\ Returned
        /\ Len(h.result.content) = Len(replies[1].response.content)
        /\ \A i \in DOMAIN h.result.content :
              /\ h.result.content[i].type = "text"
              /\ (i > 1 \/ ~h.merged) =>
                    h.result.content[i].text = replies[1].response.content[i].text
        /\ h.merged =>
              /\ FetchAllPages(params)
              /\ h.result.content[1].text = JSONstringify(h.combinedResponse)
        /\ h.result.meta = replies[1].response.meta
        /\ h.result.isError = replies[1].response.isError

C29_Witness ==
    /\ ContentReturned
    /\ Len(replies[1].response.content) = 2
    /\ replies[1].response.isError = "true"
    /\ replies[1].response.meta = "m"
    /\ h.result.isError = "true"
    /\ Len(h.result.content) = 2
    /\ h.merged
    /\ h.result.content[1].text # replies[1].response.content[1].text
    /\ h.result.content[2].text = replies[1].response.content[2].text

---------------------------------------------------------------------------
(* Undeclared call parameters *)

\* p is neither declared on the endpoint, nor a key of the override's schema,
\* nor the pagination flag
Unrecognised(p) ==
    /\ FindParamDef(tool, p.name).type = "undefined"
    /\ ~OwnedBySchema(p.name)
    /\ p.name # fetchAllPagesName

Recognised(p) == ~Unrecognised(p)

\* the request the same call builds without its unrecognised parameters
WithoutUnrecognised == BuildRequest(tool, override, SelectSeq(params, Recognised))

(* C30: a supplied parameter that is neither declared on the endpoint nor a *)
(* key of the override's schema becomes the request body only if its name   *)
(* is 'body' and the override has no body transform; any other such         *)
(* parameter is dropped, leaving path, query, headers and body as they are  *)
(* without it.  The same holds for an endpoint without declared parameters. *)
C30_UndeclaredOnlyAsBody ==
    RequestBuilt =>
        /\ h.request.routed.path = WithoutUnrecognised.routed.path
        /\ h.request.routed.queryParams = WithoutUnrecognised.routed.queryParams
        /\ h.request.routed.headers = WithoutUnrecognised.routed.headers
        /\ calls[1].path = WithoutUnrecognised.path
        /\ calls[1].options.headers = WithoutUnrecognised.options.headers
        /\ h.request.routed.body # WithoutUnrecognised.routed.body =>
              /\ override.transform.kind = "absent"
              /\ \E i \in DOMAIN params :
                    /\ Unrecognised(params[i])
                    /\ params[i].name = bodyName
                    /\ h.request.routed.body = params[i].value

C30_Witness ==
    /\ RequestBuilt
    /\ tool = BareTool
    /\ ~override.present
    /\ params = <<[name |-> xName, value |-> Str(<<"v">>)],
                  [name |-> bodyName, value |-> Str(<<"r","a","w">>)]>>
    /\ calls[1].path = tool.path
    /\ calls[1].options.headers = <<>>
    /\ calls[1].options.body = [enc |-> "raw", of |-> Str(<<"r","a","w">>)]

C30_WitnessDropped ==
    /\ RequestBuilt
    /\ tool = PostTool
    /\ override.present
    /\ override.transform.kind = "returns"
    /\ Supplied = {xName, bodyName}
    /\ h.request.routed.body = override.transform.out
    /\ calls[1].path = tool.path

====
